---- MODULE Spec2Model ----
(***************************************************************************)
(* A model of skeema's workspace package (shutdown registry, logical       *)
(* schema executor, advisory lock) and of the applier package's Worker.    *)
(* Each subsystem has its own variables, its own actions and its own       *)
(* specification; the variables of the other subsystems stay as Init left  *)
(* them.                                                                   *)
(***************************************************************************)
EXTENDS Integers, Sequences, FiniteSets, TLC

VARIABLES
    \* ---- shutdown registry (workspace.go 153-184) ----
    shutdownFuncs,      \* the registry: sequence of registration numbers
    shutdownFuncMutex,  \* "free" or the thread that holds the mutex
    sdPc,               \* per thread: "idle", "register", "iterate"
    sdFn,               \* per thread: the function a Register call passes
    sdArgs,             \* per thread: the args of its Shutdown call
    sdRange,            \* per thread: the slice the range loop iterates
    sdIdx,              \* per thread: position of the range loop
    retainedFuncs,      \* per thread: the local retainedFuncs slice
    registered,         \* history: function of each registration, in order
    sdCalls,            \* history: one record per Shutdown call
    invLog,             \* history: every invocation of a ShutdownFunc
    \* ---- ExecLogicalSchema (workspace.go 247-337) ----
    optsType,           \* input: opts.Type
    lsCreates,          \* input: logicalSchema.Creates (a map: a set of statements)
    lsAlters,           \* input: logicalSchema.Alters (a sequence of statements)
    exPc,               \* position of the ExecLogicalSchema call
    fatalErr,           \* the named result fatalErr ("nil" when nil)
    wsSchema,           \* the named result wsSchema ("nil", or Schema and Failures)
    wsState,            \* the workspace: "none", "ready", "cleaned"
    wsObjects,          \* the objects present in the workspace schema
    maxOpenConns,       \* per pool: the SetMaxOpenConns limit (0: no limit)
    task,               \* per CREATE statement: state of its goroutine
    taskResult,         \* per CREATE statement: the value its goroutine sends
    collected,          \* iterations done of the fan-in loop
    alterIdx,           \* position of the ALTER loop
    exEvents,           \* history: outcome of each fallible workspace step
    execLog,            \* history: per statement, what db.Exec returned
    execPool,           \* history: per statement, the pool it was sent on
    cleanupCalls,       \* history: number of ws.Cleanup() calls
    lateOps,            \* history: workspace operations begun after Cleanup
    \* ---- applier.Worker (applier.go 27-156) ----
    workers,            \* input: the workers of the pool
    pending,            \* the TargetGroups the producer has yet to send
    targetGroups,       \* the channel targetGroups: groups sent, not yet received
    tgClosed,           \* whether targetGroups has been closed
    ctxDone,            \* whether ctx has been cancelled
    results,            \* the channel results: every Result sent, with its sender
    live,               \* per schema: the objects of the live schema
    wkPc,               \* per worker: position in Worker
    tg,                 \* per worker: the TargetGroup of the outer loop
    ti,                 \* per worker: position of the loop over tg
    result,             \* per worker: the local result
    schemaFromInstance, \* per worker: the fetched schema (nil after an error)
    objDiffs,           \* per worker: diff.ObjectDiffs()
    ddls,               \* per worker: the DDL statements built for the target
    targetStmtCount,    \* per worker: the local targetStmtCount
    ei,                 \* per worker: position of the loop over ddls
    retErr,             \* per worker: the error Worker returned ("nil" when nil)
    received,           \* history, per worker: the groups it received
    snap,               \* history, per worker: result when the target began
    wlog,               \* history, per worker: targets begun, DDL printed, DDL executed
    \* ---- getLock (workspace.go 342-391) ----
    lkPc,               \* per caller: position in getLock, and what it returned
    lockConn,           \* per caller: its reserved connection lockConn
    lockOwner,          \* the server: whose connection holds the named lock
    elapsed,            \* per caller: time.Since(start), in seconds
    done,               \* per caller: whether the channel done is closed
    connMaintainer,     \* per caller: state of the keep-alive goroutine
    lkLog,              \* history, per caller: the queries on lockConn and its Close
    \* ---- SumResults (applier.go 158-167) ----
    srPc,               \* "input" before the first call of SumResults, then "summed"
    srResults,          \* the slice results passed to SumResults
    srTotal             \* what the last call of SumResults returned

sdVars == <<shutdownFuncs, shutdownFuncMutex, sdPc, sdFn, sdArgs, sdRange,
            sdIdx, retainedFuncs, registered, sdCalls, invLog>>

exVars == <<optsType, lsCreates, lsAlters, exPc, fatalErr, wsSchema, wsState,
            wsObjects, maxOpenConns, task, taskResult, collected, alterIdx,
            exEvents, execLog, execPool, cleanupCalls, lateOps>>

wkVars == <<workers, pending, targetGroups, tgClosed, ctxDone, results, live,
            wkPc, tg, ti, result, schemaFromInstance, objDiffs, ddls,
            targetStmtCount, ei, retErr, received, snap, wlog>>

lkVars == <<lkPc, lockConn, lockOwner, elapsed, done, connMaintainer, lkLog>>

srVars == <<srPc, srResults, srTotal>>

vars == <<sdVars, exVars, wkVars, lkVars, srVars>>

\* What the actions of one subsystem leave alone: the other subsystems.
sdFrame == <<exVars, wkVars, lkVars, srVars>>
exFrame == <<sdVars, wkVars, lkVars, srVars>>
wkFrame == <<sdVars, exVars, lkVars, srVars>>
lkFrame == <<sdVars, exVars, wkVars, srVars>>
srFrame == <<sdVars, exVars, wkVars, lkVars>>

(***************************************************************************)
(* Shutdown registry                                                       *)
(***************************************************************************)

\* Bounds of the registry model.
MaxRegs == 3
MaxShutdowns == 2

SdThreads == {"t1", "t2"}

\* The values a caller passes to Shutdown(args...).
ArgVals == {"a", "b"}

\* A ShutdownFunc is modelled by the set of call-time arguments on which it
\* cleans up (returns true); it returns false on the others.
ShutdownFunc == SUBSET ArgVals

\* f(args...) of line 169.
CallShutdownFunc(f, args) == args \in f

SdInit ==
    /\ shutdownFuncs = <<>>
    /\ shutdownFuncMutex = "free"
    /\ sdPc = [p \in SdThreads |-> "idle"]
    /\ sdFn = [p \in SdThreads |-> {}]
    /\ sdArgs = [p \in SdThreads |-> "a"]
    /\ sdRange = [p \in SdThreads |-> <<>>]
    /\ sdIdx = [p \in SdThreads |-> 0]
    /\ retainedFuncs = [p \in SdThreads |-> <<>>]
    /\ registered = <<>>
    /\ sdCalls = <<>>
    /\ invLog = <<>>

\* Unlocked with a Lock that never waits.
Unlocked_Always(mutex) == TRUE

\* shutdownFuncMutex.Lock(), lines 165 and 181, returns when no goroutine
\* holds the mutex.
Unlocked(mutex) == mutex = "free"

\* RegisterShutdownFunc, line 181: shutdownFuncMutex.Lock().
RegisterLock(p, f) ==
    /\ UNCHANGED sdFrame
    /\ sdPc[p] = "idle"
    /\ Len(registered) + Cardinality({q \in SdThreads : sdPc[q] = "register"}) < MaxRegs
    /\ Unlocked(shutdownFuncMutex)
    /\ shutdownFuncMutex' = p
    /\ sdPc' = [sdPc EXCEPT ![p] = "register"]
    /\ sdFn' = [sdFn EXCEPT ![p] = f]
    /\ UNCHANGED <<shutdownFuncs, sdArgs, sdRange, sdIdx, retainedFuncs,
                   registered, sdCalls, invLog>>

\* RegisterShutdownFunc, lines 182-183: append, then the deferred Unlock.
RegisterAppend(p) ==
    /\ UNCHANGED sdFrame
    /\ sdPc[p] = "register"
    /\ shutdownFuncs' = Append(shutdownFuncs, Len(registered) + 1)
    /\ registered' = Append(registered, sdFn[p])
    /\ shutdownFuncMutex' = "free"
    /\ sdPc' = [sdPc EXCEPT ![p] = "idle"]
    /\ sdFn' = [sdFn EXCEPT ![p] = {}]
    /\ UNCHANGED <<sdArgs, sdRange, sdIdx, retainedFuncs, sdCalls, invLog>>

\* Shutdown, lines 165-168: Lock, make retainedFuncs, start the range loop.
ShutdownLock(p, args) ==
    /\ UNCHANGED sdFrame
    /\ sdPc[p] = "idle"
    /\ Len(sdCalls) < MaxShutdowns
    /\ Unlocked(shutdownFuncMutex)
    /\ shutdownFuncMutex' = p
    /\ sdPc' = [sdPc EXCEPT ![p] = "iterate"]
    /\ sdArgs' = [sdArgs EXCEPT ![p] = args]
    /\ sdRange' = [sdRange EXCEPT ![p] = shutdownFuncs]
    /\ sdIdx' = [sdIdx EXCEPT ![p] = 1]
    /\ retainedFuncs' = [retainedFuncs EXCEPT ![p] = <<>>]
    /\ sdCalls' = Append(sdCalls, [args |-> args, before |-> shutdownFuncs,
                                   done |-> FALSE])
    /\ UNCHANGED <<shutdownFuncs, sdFn, registered, invLog>>

\* Retain with the test of line 169 inverted.
Retain_Inverted(retained, r, deregister) ==
    IF deregister THEN Append(retained, r) ELSE retained

\* The slice retainedFuncs after the loop body of lines 169-171 ran for
\* registration r, whose function returned deregister.
Retain(retained, r, deregister) ==
    IF ~deregister THEN Append(retained, r) ELSE retained

\* Shutdown, lines 168-172: one iteration of the range loop.
ShutdownInvoke(p) ==
    /\ UNCHANGED sdFrame
    /\ sdPc[p] = "iterate"
    /\ sdIdx[p] <= Len(sdRange[p])
    /\ LET r == sdRange[p][sdIdx[p]]
           deregister == CallShutdownFunc(registered[r], sdArgs[p])
       IN /\ retainedFuncs' = [retainedFuncs EXCEPT
                                  ![p] = Retain(retainedFuncs[p], r, deregister)]
          /\ invLog' = Append(invLog, [call |-> Len(sdCalls), reg |-> r,
                                       args |-> sdArgs[p], ret |-> deregister])
    /\ sdIdx' = [sdIdx EXCEPT ![p] = sdIdx[p] + 1]
    /\ UNCHANGED <<shutdownFuncs, shutdownFuncMutex, sdPc, sdFn, sdArgs,
                   sdRange, registered, sdCalls>>

\* Shutdown, lines 173-174: assign the registry, then the deferred Unlock.
ShutdownReturn(p) ==
    /\ UNCHANGED sdFrame
    /\ sdPc[p] = "iterate"
    /\ sdIdx[p] > Len(sdRange[p])
    /\ shutdownFuncs' = retainedFuncs[p]
    /\ shutdownFuncMutex' = "free"
    /\ sdPc' = [sdPc EXCEPT ![p] = "idle"]
    /\ sdRange' = [sdRange EXCEPT ![p] = <<>>]
    /\ sdIdx' = [sdIdx EXCEPT ![p] = 0]
    /\ retainedFuncs' = [retainedFuncs EXCEPT ![p] = <<>>]
    /\ sdArgs' = [sdArgs EXCEPT ![p] = "a"]
    /\ sdCalls' = [sdCalls EXCEPT ![Len(sdCalls)].done = TRUE]
    /\ UNCHANGED <<sdFn, registered, invLog>>


(***************************************************************************)
(* ExecLogicalSchema                                                       *)
(***************************************************************************)

\* Bounds of the executor model: sizes of the logical schema.
MaxCreates == 2
MaxAlters == 2

\* db.SetMaxOpenConns(10), dbRemember.SetMaxOpenConns(10).
CreateConcurrency == 10

WorkspaceTypes == {"TypeTempSchema", "TypeLocalDocker", "TypePrefab", "Unsupported"}

\* The statements a logical schema is drawn from. sql is what the database
\* makes of the statement's text on its own ("ok", a "syntax" error, or any
\* other failure, "fail"); a statement also fails when the object it requires
\* is not in the workspace schema. provides is the object it adds.
CreateMenu ==
    { [name |-> "t1", objType |-> "table", sql |-> "ok",     requires |-> "", provides |-> "t1"],
      [name |-> "t2", objType |-> "table", sql |-> "syntax", requires |-> "", provides |-> "t2"],
      [name |-> "f1", objType |-> "func",  sql |-> "ok",     requires |-> "", provides |-> "f1"],
      [name |-> "p1", objType |-> "proc",  sql |-> "fail",   requires |-> "", provides |-> "p1"] }

AlterMenu ==
    { [name |-> "addcol", objType |-> "table", sql |-> "ok",     requires |-> "t1",   provides |-> "t1.c"],
      [name |-> "addidx", objType |-> "table", sql |-> "ok",     requires |-> "t1.c", provides |-> "t1.i"],
      [name |-> "badsql", objType |-> "table", sql |-> "syntax", requires |-> "t1",   provides |-> "t1.x"] }

\* Sequences over S of length at most n.
SeqUpTo(S, n) == UNION { [1..k -> S] : k \in 0..n }

\* A statement pointer: a CREATE is identified by its key in the Creates map,
\* an ALTER by its position in the Alters slice.
CreateRef(st) == <<"create", st.name>>
AlterRef(i) == <<"alter", ToString(i)>>
StmtRefs == { CreateRef(st) : st \in lsCreates } \cup { AlterRef(i) : i \in 1..Len(lsAlters) }

\* rememberSQLMode[statement.ObjectType], lines 278-283 and 294.
rememberSQLMode(objType) == objType \in {"func", "proc"}

\* The pool the goroutine of lines 293-299 executes a CREATE on.
PoolFor(st) == IF rememberSQLMode(st.objType) THEN "dbRemember" ELSE "db"

\* db.Exec(statement.Body()), line 325: "nil", or the kind of error.
DbExec(st, objects) ==
    IF st.sql = "syntax" THEN "syntax"
    ELSE IF st.sql = "fail" \/ (st.requires # "" /\ st.requires \notin objects) THEN "ddl"
    ELSE "nil"

\* The workspace schema after db.Exec of st.
DbApply(st, objects) ==
    IF DbExec(st, objects) = "nil" THEN objects \cup {st.provides} ELSE objects

\* A nil *StatementError.
NilStatementError == [stmt |-> <<"", "">>, err |-> "nil"]

\* execStatement reporting syntax errors only.
execStatement_SyntaxOnly(ref, st, objects) ==
    IF DbExec(st, objects) = "syntax"
    THEN [stmt |-> ref, err |-> "SQL syntax error"]
    ELSE NilStatementError

\* execStatement, lines 324-337: nil, or a StatementError for the statement.
execStatement(ref, st, objects) ==
    LET err == DbExec(st, objects)
    IN IF err = "nil" THEN NilStatementError
       ELSE [stmt |-> ref,
             err |-> IF err = "syntax" THEN "SQL syntax error"
                     ELSE "Error executing DDL in workspace"]

\* AppendFailure keeping the last failure only.
AppendFailure_KeepLast(failures, res) ==
    IF res # NilStatementError THEN <<res>> ELSE failures

\* Lines 306-308 and 315-317: a non-nil result is appended to Failures.
AppendFailure(failures, res) ==
    IF res # NilStatementError THEN Append(failures, res) ELSE failures

\* A nil *Schema result, and a nil *tengo.Schema inside a Schema.
NilSchema == [nil |-> TRUE, objects |-> {}]
NilWsSchema == [nil |-> TRUE, Schema |-> NilSchema, Failures |-> <<>>]

\* The state before ExecLogicalSchema(logicalSchema, opts) runs.
ExStart(type, creates, alters) ==
    /\ optsType = type
    /\ lsCreates = creates
    /\ lsAlters = alters
    /\ exPc = "New"
    /\ fatalErr = "nil"
    /\ wsSchema = NilWsSchema
    /\ wsState = "none"
    /\ wsObjects = {}
    /\ maxOpenConns = [pool \in {"db", "dbRemember"} |-> 0]
    /\ task = [st \in lsCreates |-> "none"]
    /\ taskResult = [st \in lsCreates |-> NilStatementError]
    /\ collected = 0
    /\ alterIdx = 0
    /\ exEvents = [step \in {"New", "pool1", "pool2", "introspect", "cleanup"} |-> "none"]
    /\ execLog = [r \in StmtRefs |-> <<>>]
    /\ execPool = [r \in StmtRefs |-> "none"]
    /\ cleanupCalls = 0
    /\ lateOps = 0

ExInit ==
    \E type \in WorkspaceTypes,
       creates \in { S \in SUBSET CreateMenu : Cardinality(S) <= MaxCreates },
       alters \in SeqUpTo(AlterMenu, MaxAlters) : ExStart(type, creates, alters)

\* A logical schema of one CREATE more than a pool has connections, all of
\* one object type, each creating an object of its own.
CapCreates(objType) ==
    { [name |-> ToString(i), objType |-> objType, sql |-> "ok", requires |-> "",
       provides |-> ToString(i)] : i \in 1..(CreateConcurrency + 1) }

\* The statement of CapCreates that finds its pool at the limit.
CapWaiting(objType) ==
    CHOOSE st \in CapCreates(objType) : st.name = ToString(CreateConcurrency + 1)

\* ExecLogicalSchema in its CREATE phase for such a schema, on a prefab
\* workspace: lines 255-304 are done, and CreateConcurrency of the goroutines
\* have got a connection of their pool.
ExStartCap(objType) ==
    /\ optsType = "TypePrefab"
    /\ lsCreates = CapCreates(objType)
    /\ lsAlters = <<>>
    /\ exPc = "collect"
    /\ fatalErr = "nil"
    /\ wsSchema = [nil |-> FALSE, Schema |-> NilSchema, Failures |-> <<>>]
    /\ wsState = "ready"
    /\ wsObjects = {}
    /\ maxOpenConns = [pool \in {"db", "dbRemember"} |-> CreateConcurrency]
    /\ task = [st \in lsCreates |-> IF st = CapWaiting(objType) THEN "started" ELSE "running"]
    /\ taskResult = [st \in lsCreates |-> NilStatementError]
    /\ collected = 0
    /\ alterIdx = 0
    /\ exEvents = [step \in {"New", "pool1", "pool2", "introspect", "cleanup"} |->
                      IF step \in {"New", "pool1", "pool2"} THEN "ok" ELSE "none"]
    /\ execLog = [r \in StmtRefs |-> <<>>]
    /\ execPool = [r \in StmtRefs |->
                      IF r = CreateRef(CapWaiting(objType)) THEN "none"
                      ELSE IF rememberSQLMode(objType) THEN "dbRemember" ELSE "db"]
    /\ cleanupCalls = 0
    /\ lateOps = 0

\* The executor when another subsystem is the one under study.
ExParked == ExStart("TypePrefab", {}, <<>>)

\* A workspace operation that begins now comes after Cleanup when Cleanup
\* has been called.
Late == IF cleanupCalls > 0 THEN lateOps + 1 ELSE lateOps

\* Lines 254-263: New(opts), lines 90-100; on success the cleanup is deferred.
\* NewTempSchema and NewLocalDocker may fail; a prefab workspace is returned
\* as it is; any other type is unsupported.
ExecNew(ok) ==
    /\ UNCHANGED exFrame
    /\ exPc = "New"
    /\ LET err == IF optsType \in {"TypeTempSchema", "TypeLocalDocker"}
                  THEN (IF ok THEN "nil" ELSE "New failed")
                  ELSE IF optsType = "TypePrefab" THEN "nil"
                  ELSE "Unsupported workspace type"
       IN /\ (optsType \notin {"TypeTempSchema", "TypeLocalDocker"}) => ok
          /\ fatalErr' = err
          /\ exEvents' = [exEvents EXCEPT !["New"] = IF err = "nil" THEN "ok" ELSE "err"]
          /\ wsState' = IF err = "nil" THEN "ready" ELSE "none"
          /\ exPc' = IF err = "nil" THEN "pool1" ELSE "returned"
    /\ UNCHANGED <<optsType, lsCreates, lsAlters, wsSchema, wsObjects, maxOpenConns,
                   task, taskResult, collected, alterIdx, execLog, execPool, cleanupCalls, lateOps>>

\* ExecPool1 returning on failure without the deferred cleanup.
ExecPool1_NoCleanup(ok) ==
    /\ UNCHANGED exFrame
    /\ exPc = "pool1"
    /\ exEvents' = [exEvents EXCEPT !["pool1"] = IF ok THEN "ok" ELSE "err"]
    /\ fatalErr' = IF ok THEN fatalErr ELSE "Cannot connect to workspace"
    /\ exPc' = IF ok THEN "pool2" ELSE "returned"
    /\ lateOps' = Late
    /\ UNCHANGED <<optsType, lsCreates, lsAlters, wsSchema, wsState, wsObjects,
                   maxOpenConns, task, taskResult, collected, alterIdx, execLog, execPool,
                   cleanupCalls>>

\* Lines 268-272: ws.ConnectionPool("").
ExecPool1(ok) ==
    /\ UNCHANGED exFrame
    /\ exPc = "pool1"
    /\ exEvents' = [exEvents EXCEPT !["pool1"] = IF ok THEN "ok" ELSE "err"]
    /\ fatalErr' = IF ok THEN fatalErr ELSE "Cannot connect to workspace"
    /\ exPc' = IF ok THEN "pool2" ELSE "cleanup"
    /\ lateOps' = Late
    /\ UNCHANGED <<optsType, lsCreates, lsAlters, wsSchema, wsState, wsObjects,
                   maxOpenConns, task, taskResult, collected, alterIdx, execLog, execPool,
                   cleanupCalls>>

\* ExecPool2 going on after an error of the second ConnectionPool.
ExecPool2_IgnoreError(ok) ==
    /\ UNCHANGED exFrame
    /\ exPc = "pool2"
    /\ exEvents' = [exEvents EXCEPT !["pool2"] = IF ok THEN "ok" ELSE "err"]
    /\ fatalErr' = IF ok THEN fatalErr ELSE "Cannot connect to workspace"
    /\ exPc' = "collect"
    /\ maxOpenConns' = [pool \in {"db", "dbRemember"} |-> CreateConcurrency]
    /\ task' = [st \in lsCreates |-> "started"]
    /\ wsSchema' = [nil |-> FALSE, Schema |-> NilSchema, Failures |-> <<>>]
    /\ lateOps' = Late
    /\ UNCHANGED <<optsType, lsCreates, lsAlters, wsState, wsObjects, taskResult,
                   collected, alterIdx, execLog, execPool, cleanupCalls>>

\* Lines 273-304: ws.ConnectionPool("sql_mode=@@GLOBAL.sql_mode"); then both
\* limits are set, the results channel is made, one goroutine is started per
\* CREATE statement and wsSchema is allocated.
ExecPool2(ok) ==
    /\ UNCHANGED exFrame
    /\ exPc = "pool2"
    /\ exEvents' = [exEvents EXCEPT !["pool2"] = IF ok THEN "ok" ELSE "err"]
    /\ fatalErr' = IF ok THEN fatalErr ELSE "Cannot connect to workspace"
    /\ exPc' = IF ok THEN "collect" ELSE "cleanup"
    /\ maxOpenConns' = IF ok THEN [pool \in {"db", "dbRemember"} |-> CreateConcurrency]
                       ELSE maxOpenConns
    /\ task' = IF ok THEN [st \in lsCreates |-> "started"] ELSE task
    /\ wsSchema' = IF ok THEN [nil |-> FALSE, Schema |-> NilSchema, Failures |-> <<>>]
                   ELSE wsSchema
    /\ lateOps' = Late
    /\ UNCHANGED <<optsType, lsCreates, lsAlters, wsState, wsObjects, taskResult,
                   collected, alterIdx, execLog, execPool, cleanupCalls>>

\* Connections of a pool in use by the CREATE goroutines.
InUse(pool) == Cardinality({ st \in lsCreates : task[st] = "running" /\ PoolFor(st) = pool })

\* ConnAvailable with a pool that opens a connection whenever it is asked.
ConnAvailable_Unlimited(limit, inUse) == TRUE

\* A pool under SetMaxOpenConns(limit), lines 289-290, with inUse of its
\* connections open and in use: whether it hands out a connection now; a
\* limit of 0 is no limit.
ConnAvailable(limit, inUse) == limit = 0 \/ inUse < limit

\* Lines 294-298 and 325: a goroutine gets a connection of its pool, which
\* waits while the pool is at its limit, and sends the statement.
TaskBegin(st) ==
    /\ UNCHANGED exFrame
    /\ task[st] = "started"
    /\ ConnAvailable(maxOpenConns[PoolFor(st)], InUse(PoolFor(st)))
    /\ task' = [task EXCEPT ![st] = "running"]
    /\ execPool' = [execPool EXCEPT ![CreateRef(st)] = PoolFor(st)]
    /\ lateOps' = Late
    /\ UNCHANGED <<optsType, lsCreates, lsAlters, exPc, fatalErr, wsSchema, wsState,
                   wsObjects, maxOpenConns, taskResult, collected, alterIdx,
                   exEvents, execLog, cleanupCalls>>

\* Lines 325-336: the database executes the statement; execStatement returns
\* and the goroutine blocks sending the result.
TaskFinish(st) ==
    /\ UNCHANGED exFrame
    /\ task[st] = "running"
    /\ taskResult' = [taskResult EXCEPT ![st] = execStatement(CreateRef(st), st, wsObjects)]
    /\ wsObjects' = DbApply(st, wsObjects)
    /\ execLog' = [execLog EXCEPT ![CreateRef(st)] = Append(@, DbExec(st, wsObjects))]
    /\ task' = [task EXCEPT ![st] = "sending"]
    /\ UNCHANGED <<optsType, lsCreates, lsAlters, exPc, fatalErr, wsSchema, wsState,
                   maxOpenConns, collected, alterIdx, exEvents, execPool, cleanupCalls,
                   lateOps>>

\* FanInOver with a loop that makes one receive less than there are CREATEs.
FanInOver_OneShort(n, k) == k + 1 >= n

\* Line 305: the range over logicalSchema.Creates, of n statements, is over
\* after k receives.
FanInOver(n, k) == k = n

\* Lines 305-309: one iteration of the fan-in loop receives from a goroutine
\* that is blocked sending.
ExecCollect(st) ==
    /\ UNCHANGED exFrame
    /\ exPc = "collect"
    /\ ~FanInOver(Cardinality(lsCreates), collected)
    /\ task[st] = "sending"
    /\ wsSchema' = [wsSchema EXCEPT !.Failures = AppendFailure(@, taskResult[st])]
    /\ task' = [task EXCEPT ![st] = "done"]
    /\ collected' = collected + 1
    /\ UNCHANGED <<optsType, lsCreates, lsAlters, exPc, fatalErr, wsState, wsObjects,
                   maxOpenConns, taskResult, alterIdx, exEvents, execLog, execPool,
                   cleanupCalls, lateOps>>

\* Lines 309-314: the fan-in loop ends, close(results), the ALTER loop starts.
ExecCloseResults ==
    /\ UNCHANGED exFrame
    /\ exPc = "collect"
    /\ FanInOver(Cardinality(lsCreates), collected)
    /\ exPc' = "alters"
    /\ alterIdx' = 1
    /\ UNCHANGED <<optsType, lsCreates, lsAlters, fatalErr, wsSchema, wsState,
                   wsObjects, maxOpenConns, task, taskResult, collected, exEvents,
                   execLog, execPool, cleanupCalls, lateOps>>

\* The pool an ALTER is executed on, line 315.
AlterPool == "db"

\* AfterAlter leaving the loop at a failed ALTER.
AfterAlter_StopAtFailure(i, n, res) == IF res # NilStatementError THEN n + 1 ELSE i + 1

\* Lines 314-318: the position in the n ALTERs after the one at i returned
\* res: the range loop goes on whatever the result.
AfterAlter(i, n, res) == i + 1

\* Lines 314-318: one iteration of the ALTER loop, on the normal pool.
ExecAlter ==
    /\ UNCHANGED exFrame
    /\ exPc = "alters"
    /\ alterIdx <= Len(lsAlters)
    /\ LET st == lsAlters[alterIdx]
           res == execStatement(AlterRef(alterIdx), st, wsObjects)
       IN /\ wsSchema' = [wsSchema EXCEPT !.Failures = AppendFailure(@, res)]
          /\ wsObjects' = DbApply(st, wsObjects)
          /\ execLog' = [execLog EXCEPT ![AlterRef(alterIdx)] = Append(@, DbExec(st, wsObjects))]
          /\ execPool' = [execPool EXCEPT ![AlterRef(alterIdx)] = AlterPool]
          /\ alterIdx' = AfterAlter(alterIdx, Len(lsAlters), res)
    /\ lateOps' = Late
    /\ UNCHANGED <<optsType, lsCreates, lsAlters, exPc, fatalErr, wsState,
                   maxOpenConns, task, taskResult, collected, exEvents, cleanupCalls>>

\* Lines 320-321: wsSchema.Schema, fatalErr = ws.IntrospectSchema(); return.
ExecIntrospect(ok) ==
    /\ UNCHANGED exFrame
    /\ exPc = "alters"
    /\ alterIdx > Len(lsAlters)
    /\ exEvents' = [exEvents EXCEPT !["introspect"] = IF ok THEN "ok" ELSE "err"]
    /\ wsSchema' = [wsSchema EXCEPT !.Schema = IF ok THEN [nil |-> FALSE, objects |-> wsObjects]
                                              ELSE NilSchema]
    /\ fatalErr' = IF ok THEN "nil" ELSE "IntrospectSchema failed"
    /\ exPc' = "cleanup"
    /\ lateOps' = Late
    /\ UNCHANGED <<optsType, lsCreates, lsAlters, wsState, wsObjects, maxOpenConns,
                   task, taskResult, collected, alterIdx, execLog, execPool, cleanupCalls>>

\* CleanupResult with the result of Cleanup always assigned.
CleanupResult_Overwrite(err, cleanupErr) == cleanupErr

\* The deferred function of lines 259-263: fatalErr after ws.Cleanup()
\* returned cleanupErr.
CleanupResult(err, cleanupErr) == IF err = "nil" THEN cleanupErr ELSE err

\* The deferred calls, last registered first: lines 288 and 287 (when they
\* were reached), then lines 259-263.
ExecCleanup(ok) ==
    /\ UNCHANGED exFrame
    /\ exPc = "cleanup"
    /\ maxOpenConns' = [pool \in {"db", "dbRemember"} |-> 0]
    /\ cleanupCalls' = cleanupCalls + 1
    /\ wsState' = "cleaned"
    /\ exEvents' = [exEvents EXCEPT !["cleanup"] = IF ok THEN "ok" ELSE "err"]
    /\ fatalErr' = CleanupResult(fatalErr, IF ok THEN "nil" ELSE "Cleanup failed")
    /\ exPc' = "returned"
    /\ UNCHANGED <<optsType, lsCreates, lsAlters, wsSchema, wsObjects, task,
                   taskResult, collected, alterIdx, execLog, execPool, lateOps>>

NextExec ==
    \/ \E ok \in BOOLEAN : ExecNew(ok)
    \/ \E ok \in BOOLEAN : ExecPool1(ok)
    \/ \E ok \in BOOLEAN : ExecPool2(ok)
    \/ \E st \in lsCreates : TaskBegin(st)
    \/ \E st \in lsCreates : TaskFinish(st)
    \/ \E st \in lsCreates : ExecCollect(st)
    \/ ExecCloseResults
    \/ ExecAlter
    \/ \E ok \in BOOLEAN : ExecIntrospect(ok)
    \/ \E ok \in BOOLEAN : ExecCleanup(ok)


(***************************************************************************)
(* applier.Worker                                                          *)
(***************************************************************************)

\* Bounds of the worker model: object diffs of the target under study, and
\* TargetGroups in the queue.
MaxDiffs == 3
MaxGroups == 2

WorkerIds == {"w1", "w2"}

\* What NewDDLStatement makes of an object diff: nothing ("noop"), a
\* statement whose execution succeeds ("ddl") or fails ("ddlfail"), an
\* unsupported-diff error, or any other error.
DiffKinds == {"noop", "ddl", "ddlfail", "unsupported", "error"}

\* A Target: its schema on its instance, the options of its directory that
\* Worker reads, the outcome of the calls Worker makes for it (fetchErr:
\* SchemaFromInstance fails; gateErr: which of VerifyDiff,
\* StatementModifiersForDir, linter.OptionsForDir fails; lintErrors:
\* lintResult.ErrorCount), and the objects of its desired schema, each given
\* by the kind of its diff. An object's key is its position in diffs. Worker
\* returns at a gateErr before it looks at the diffs one by one: such targets
\* are drawn with one diff at most.
Targets(schemas, maxDiffs) ==
    { t \in [schema : schemas, dryRun : BOOLEAN, brief : BOOLEAN, verify : BOOLEAN,
             lint : BOOLEAN, fetchErr : BOOLEAN,
             gateErr : {"none", "verify", "mods", "lintopts"},
             lintErrors : 0..2, diffs : SeqUpTo(DiffKinds, maxDiffs)] :
        /\ t.brief => t.dryRun
        /\ t.gateErr = "verify" => t.verify
        /\ ~t.lint => t.lintErrors = 0
        /\ t.gateErr # "none" => Len(t.diffs) <= 1 }

\* A target pushed with no option set, for which every call succeeds.
PlainTarget(schema, diffs) ==
    [schema |-> schema, dryRun |-> FALSE, brief |-> FALSE, verify |-> FALSE,
     lint |-> FALSE, fetchErr |-> FALSE, gateErr |-> "none", lintErrors |-> 0,
     diffs |-> diffs]

Schemas == {"s1", "s2", "s3"}

ZeroResult == [Differences |-> FALSE, SkipCount |-> 0, UnsupportedCount |-> 0]

NilInstanceSchema == [nil |-> TRUE, objects |-> {}]

\* The TargetGroup a worker holds before it has received one.
NoGroup == [id |-> 0, targets |-> <<>>]

\* The target worker w is at.
Cur(w) == tg[w].targets[ti[w]]

\* Lines 44-48: result after t.SchemaFromInstance() returned.
FetchResult(res, fetchErr) ==
    IF fetchErr THEN [res EXCEPT !.SkipCount = @ + 1] ELSE res

\* Where Worker goes after lines 44-48.
AfterFetch(fetchErr) == "configure"

\* Lines 49 and 73: tengo.NewSchemaDiff(schemaFromInstance, t.SchemaFromDir())
\* and diff.ObjectDiffs(): the objects of the desired schema that the fetched
\* schema lacks, in order; a nil schema lacks them all.
ObjectDiffs(t, fetched) ==
    SelectSeq([i \in 1..Len(t.diffs) |-> [key |-> i, kind |-> t.diffs[i]]],
              LAMBDA d : d.key \notin fetched.objects)

\* ConfigureErr going on after an error of StatementModifiersForDir or
\* linter.OptionsForDir.
ConfigureErr_VerifyOnly(t, diffs) ==
    IF t.verify /\ Len(diffs) > 0 /\ ~(t.dryRun /\ t.brief) /\ t.gateErr = "verify"
    THEN "VerifyDiff failed"
    ELSE "nil"

\* Lines 52-68: the error Worker returns before rendering, "nil" when none.
ConfigureErr(t, diffs) ==
    IF t.verify /\ Len(diffs) > 0 /\ ~(t.dryRun /\ t.brief) /\ t.gateErr = "verify"
    THEN "VerifyDiff failed"
    ELSE IF t.gateErr \in {"mods", "lintopts"} THEN "ConfigError"
    ELSE "nil"

\* NewDDLStatement(objDiff, mods, t), line 77.
NewDDLStatement(d) ==
    [ddl |-> d.kind \in {"ddl", "ddlfail"},
     err |-> IF d.kind = "unsupported" THEN "UnsupportedDiffError"
             ELSE IF d.kind = "error" THEN "error" ELSE "nil"]

\* RenderErrorSkip counting only the diffs from the failing one on.
RenderErrorSkip_Remaining(diffs, i) == Len(diffs) - i + 1

\* Line 91: what a rendering error at position i adds to SkipCount.
RenderErrorSkip(diffs, i) == Len(diffs)

\* UnsupportedResult counting the diff as skipped.
UnsupportedResult_Skipped(res) == [res EXCEPT !.SkipCount = @ + 1]

\* Lines 86-89: result after an unsupported diff (Differences is set at
\* line 82, before the kind of the error is looked at).
UnsupportedResult(res) == [res EXCEPT !.UnsupportedCount = @ + 1]

\* Lines 76-98: the loop over objDiffs from position i on. st holds result,
\* ddls, targetStmtCount and whether the loop left by continue TargetsInGroup.
RECURSIVE RenderLoop(_, _, _)
RenderLoop(diffs, i, st) ==
    IF i > Len(diffs) THEN st
    ELSE LET r == NewDDLStatement(diffs[i])
             st1 == [st EXCEPT !.count = @ + 1, !.result.Differences = TRUE]
         IN IF ~r.ddl /\ r.err = "nil" THEN RenderLoop(diffs, i + 1, st)
            ELSE IF r.err = "nil"
            THEN RenderLoop(diffs, i + 1, [st1 EXCEPT !.ddls = Append(@, diffs[i])])
            ELSE IF r.err = "UnsupportedDiffError"
            THEN RenderLoop(diffs, i + 1, [st1 EXCEPT !.result = UnsupportedResult(@)])
            ELSE [st1 EXCEPT !.result.SkipCount = @ + RenderErrorSkip(diffs, i),
                             !.aborted = TRUE]

\* linter.CheckSchema, lines 103-104: the error count of a linter that
\* looks at the objects of keys only.
CheckSchema(t, keys) == IF keys = <<>> THEN 0 ELSE t.lintErrors

\* Lines 102-117: whether the linter's result makes Worker skip the target.
LintRejects(t, keys) == t.lint /\ CheckSchema(t, keys) > 0

\* Line 114: what a lint rejection adds to SkipCount.
LintSkip(diffs, stmts) == Len(diffs)

\* ddl.Execute(), line 124: it fails for a statement the database rejects
\* and for an object that the live schema already has.
Execute(d, objects) == d.kind = "ddl" /\ d.key \notin objects

\* The loop over ddls taking no run for a dry run.
DryRun_Never(t) == FALSE

\* Lines 32 and 123: dryRun, read from the target's directory configuration.
DryRun(t) == t.dryRun

\* ExecSkip leaving the failing statement out.
ExecSkip_AfterOnly(stmts, i) == Len(stmts) - i - 1

\* Line 126: skipped, for the failing statement at 0-based position i.
ExecSkip(stmts, i) == Len(stmts) - i

WkInitWith(ws, groups, sent, closed) ==
    /\ workers = ws
    /\ pending = groups
    /\ targetGroups = sent
    /\ tgClosed = closed
    /\ ctxDone = FALSE
    /\ results = <<>>
    /\ live = [sc \in Schemas |-> {}]
    /\ wkPc = [w \in WorkerIds |-> "recv"]
    /\ tg = [w \in WorkerIds |-> NoGroup]
    /\ ti = [w \in WorkerIds |-> 0]
    /\ result = [w \in WorkerIds |-> ZeroResult]
    /\ schemaFromInstance = [w \in WorkerIds |-> NilInstanceSchema]
    /\ objDiffs = [w \in WorkerIds |-> <<>>]
    /\ ddls = [w \in WorkerIds |-> <<>>]
    /\ targetStmtCount = [w \in WorkerIds |-> 0]
    /\ ei = [w \in WorkerIds |-> 0]
    /\ retErr = [w \in WorkerIds |-> "nil"]
    /\ received = [w \in WorkerIds |-> <<>>]
    /\ snap = [w \in WorkerIds |-> ZeroResult]
    /\ wlog = [w \in WorkerIds |-> <<>>]

\* The worker pool when another subsystem is the one under study.
WkParked == WkInitWith({}, <<>>, <<>>, TRUE)

\* The producer sends the next TargetGroup.
SendGroup ==
    /\ UNCHANGED wkFrame
    /\ pending # <<>>
    /\ targetGroups' = Append(targetGroups, Head(pending))
    /\ pending' = Tail(pending)
    /\ UNCHANGED <<workers, tgClosed, ctxDone, results, live, wkPc, tg, ti, result,
                   schemaFromInstance, objDiffs, ddls, targetStmtCount, ei,
                   retErr, received, snap, wlog>>

\* The producer closes the channel after the last TargetGroup.
CloseGroups ==
    /\ UNCHANGED wkFrame
    /\ pending = <<>>
    /\ ~tgClosed
    /\ tgClosed' = TRUE
    /\ UNCHANGED <<workers, pending, targetGroups, ctxDone, results, live, wkPc, tg,
                   ti, result, schemaFromInstance, objDiffs, ddls,
                   targetStmtCount, ei, retErr, received, snap, wlog>>

\* ctx is cancelled: by the errgroup when a worker returned an error, or by
\* the caller.
Cancel ==
    /\ UNCHANGED wkFrame
    /\ ~ctxDone
    /\ \E w \in workers : wkPc[w] # "done"
    /\ ctxDone' = TRUE
    /\ UNCHANGED <<workers, pending, targetGroups, tgClosed, results, live, wkPc, tg,
                   ti, result, schemaFromInstance, objDiffs, ddls,
                   targetStmtCount, ei, retErr, received, snap, wlog>>

\* Line 29: the range over targetGroups receives a group; line 31 starts the
\* loop over its targets.
WkRecv(w) ==
    /\ UNCHANGED wkFrame
    /\ wkPc[w] = "recv"
    /\ targetGroups # <<>>
    /\ tg' = [tg EXCEPT ![w] = Head(targetGroups)]
    /\ targetGroups' = Tail(targetGroups)
    /\ ti' = [ti EXCEPT ![w] = 1]
    /\ received' = [received EXCEPT ![w] = Append(@, Head(targetGroups))]
    /\ wkPc' = [wkPc EXCEPT ![w] = IF Len(Head(targetGroups).targets) = 0
                                   THEN "recv" ELSE "fetch"]
    /\ UNCHANGED <<workers, pending, tgClosed, ctxDone, results, live, result,
                   schemaFromInstance, objDiffs, ddls, targetStmtCount, ei,
                   retErr, snap, wlog>>

\* WkFinish leaving the loop as soon as no group is waiting.
WkFinish_OnEmpty(w) ==
    /\ UNCHANGED wkFrame
    /\ wkPc[w] = "recv"
    /\ targetGroups = <<>>
    /\ results' = Append(results, [from |-> w, result |-> result[w]])
    /\ wkPc' = [wkPc EXCEPT ![w] = "done"]
    /\ UNCHANGED <<workers, pending, targetGroups, tgClosed, ctxDone, live, tg, ti,
                   result, schemaFromInstance, objDiffs, ddls, targetStmtCount,
                   ei, retErr, received, snap, wlog>>

\* Lines 29 and 154-155: the channel is closed and empty, the range loop
\* ends, the worker sends its result and returns nil.
WkFinish(w) ==
    /\ UNCHANGED wkFrame
    /\ wkPc[w] = "recv"
    /\ targetGroups = <<>> /\ tgClosed
    /\ results' = Append(results, [from |-> w, result |-> result[w]])
    /\ wkPc' = [wkPc EXCEPT ![w] = "done"]
    /\ UNCHANGED <<workers, pending, targetGroups, tgClosed, ctxDone, live, tg, ti,
                   result, schemaFromInstance, objDiffs, ddls, targetStmtCount,
                   ei, retErr, received, snap, wlog>>

\* The control of worker w after a target that did not make Worker return:
\* the next target of the group, or the next receive.
ToNextTarget(w) ==
    IF ti[w] < Len(tg[w].targets)
    THEN /\ ti' = [ti EXCEPT ![w] = @ + 1]
         /\ wkPc' = [wkPc EXCEPT ![w] = "fetch"]
    ELSE /\ ti' = ti
         /\ wkPc' = [wkPc EXCEPT ![w] = "recv"]

\* An entry of wlog.
Event(ev, w, key, ok) == [ev |-> ev, g |-> tg[w].id, t |-> ti[w], key |-> key, ok |-> ok]

\* Lines 31-48: a target begins; its live schema is fetched.
WkFetch(w) ==
    /\ UNCHANGED wkFrame
    /\ wkPc[w] = "fetch"
    /\ LET t == Cur(w)
       IN /\ schemaFromInstance' = [schemaFromInstance EXCEPT ![w] =
                 IF t.fetchErr THEN NilInstanceSchema
                 ELSE [nil |-> FALSE, objects |-> live[t.schema]]]
          /\ result' = [result EXCEPT ![w] = FetchResult(@, t.fetchErr)]
          /\ wkPc' = [wkPc EXCEPT ![w] = AfterFetch(t.fetchErr)]
    /\ snap' = [snap EXCEPT ![w] = result[w]]
    /\ wlog' = [wlog EXCEPT ![w] = Append(@, Event("start", w, 0, TRUE))]
    /\ objDiffs' = [objDiffs EXCEPT ![w] = <<>>]
    /\ ddls' = [ddls EXCEPT ![w] = <<>>]
    /\ targetStmtCount' = [targetStmtCount EXCEPT ![w] = 0]
    /\ ei' = [ei EXCEPT ![w] = 0]
    /\ UNCHANGED <<workers, pending, targetGroups, tgClosed, ctxDone, results, live,
                   tg, ti, retErr, received>>

\* Lines 49-68: the diff; VerifyDiff, StatementModifiersForDir and
\* linter.OptionsForDir, whose errors Worker returns.
WkConfigure(w) ==
    /\ UNCHANGED wkFrame
    /\ wkPc[w] = "configure"
    /\ LET diffs == ObjectDiffs(Cur(w), schemaFromInstance[w])
           err == ConfigureErr(Cur(w), diffs)
       IN /\ objDiffs' = [objDiffs EXCEPT ![w] = diffs]
          /\ retErr' = [retErr EXCEPT ![w] = err]
          /\ wkPc' = [wkPc EXCEPT ![w] = IF err = "nil" THEN "render" ELSE "done"]
    /\ UNCHANGED <<workers, pending, targetGroups, tgClosed, ctxDone, results, live,
                   tg, ti, result, schemaFromInstance, ddls, targetStmtCount, ei,
                   received, snap, wlog>>

\* Lines 73-98: the statements are built; an error other than an
\* unsupported diff makes Worker continue with the next target.
WkRender(w) ==
    /\ UNCHANGED wkFrame
    /\ wkPc[w] = "render"
    /\ LET st == RenderLoop(objDiffs[w], 1, [result |-> result[w], ddls |-> <<>>,
                                             count |-> 0, aborted |-> FALSE])
       IN /\ result' = [result EXCEPT ![w] = st.result]
          /\ ddls' = [ddls EXCEPT ![w] = st.ddls]
          /\ targetStmtCount' = [targetStmtCount EXCEPT ![w] = st.count]
          /\ IF st.aborted THEN ToNextTarget(w)
             ELSE /\ wkPc' = [wkPc EXCEPT ![w] = "lint"]
                  /\ ti' = ti
    /\ UNCHANGED <<workers, pending, targetGroups, tgClosed, ctxDone, results, live,
                   tg, schemaFromInstance, objDiffs, ei, retErr, received, snap,
                   wlog>>

\* Lines 100-121: the lint gate; a rejected target is skipped, another one
\* enters the loop over ddls.
WkLint(w) ==
    /\ UNCHANGED wkFrame
    /\ wkPc[w] = "lint"
    /\ IF LintRejects(Cur(w), ddls[w])
       THEN /\ result' = [result EXCEPT ![w].SkipCount = @ + LintSkip(objDiffs[w], ddls[w])]
            /\ ToNextTarget(w)
            /\ ei' = ei
       ELSE /\ result' = result
            /\ ti' = ti
            /\ wkPc' = [wkPc EXCEPT ![w] = IF Len(ddls[w]) = 0 THEN "ctx" ELSE "exec"]
            /\ ei' = [ei EXCEPT ![w] = 1]
    /\ UNCHANGED <<workers, pending, targetGroups, tgClosed, ctxDone, results, live,
                   tg, schemaFromInstance, objDiffs, ddls, targetStmtCount,
                   retErr, received, snap, wlog>>

\* Lines 121-134: one iteration of the loop over ddls: the statement is
\* printed and, unless dry-run is set, executed; a failure ends the loop.
WkExec(w) ==
    /\ UNCHANGED wkFrame
    /\ wkPc[w] = "exec"
    /\ LET t == Cur(w)
           d == ddls[w][ei[w]]
           ok == Execute(d, live[t.schema])
           printed == Append(wlog[w], Event("print", w, d.key, TRUE))
       IN IF DryRun(t)
          THEN /\ wlog' = [wlog EXCEPT ![w] = printed]
               /\ UNCHANGED <<live, result>>
               /\ wkPc' = [wkPc EXCEPT ![w] = IF ei[w] = Len(ddls[w]) THEN "ctx" ELSE "exec"]
          ELSE /\ wlog' = [wlog EXCEPT ![w] = Append(printed, Event("exec", w, d.key, ok))]
               /\ live' = IF ok THEN [live EXCEPT ![t.schema] = @ \cup {d.key}] ELSE live
               /\ result' = IF ok THEN result
                            ELSE [result EXCEPT ![w].SkipCount = @ + ExecSkip(ddls[w], ei[w] - 1)]
               /\ wkPc' = [wkPc EXCEPT ![w] = IF ~ok \/ ei[w] = Len(ddls[w])
                                              THEN "ctx" ELSE "exec"]
    /\ ei' = [ei EXCEPT ![w] = @ + 1]
    /\ UNCHANGED <<workers, pending, targetGroups, tgClosed, ctxDone, results, tg, ti,
                   schemaFromInstance, objDiffs, ddls, targetStmtCount, retErr,
                   received, snap>>

\* WkCtx looking at ctx after the last target of a group only.
WkCtx_AfterGroup(w) ==
    /\ UNCHANGED wkFrame
    /\ wkPc[w] = "ctx"
    /\ IF ctxDone /\ ti[w] = Len(tg[w].targets)
       THEN /\ wkPc' = [wkPc EXCEPT ![w] = "done"]
            /\ ti' = ti
            /\ wlog' = [wlog EXCEPT ![w] = Append(@, Event("cancelled", w, 0, TRUE))]
       ELSE /\ ToNextTarget(w)
            /\ wlog' = wlog
    /\ UNCHANGED <<workers, pending, targetGroups, tgClosed, ctxDone, results, live,
                   tg, result, schemaFromInstance, objDiffs, ddls,
                   targetStmtCount, ei, retErr, received, snap>>

\* WkCtx sending the Result before it returns on a cancelled ctx.
WkCtx_SendOnCancel(w) ==
    /\ UNCHANGED wkFrame
    /\ wkPc[w] = "ctx"
    /\ IF ctxDone
       THEN /\ wkPc' = [wkPc EXCEPT ![w] = "done"]
            /\ ti' = ti
            /\ wlog' = [wlog EXCEPT ![w] = Append(@, Event("cancelled", w, 0, TRUE))]
            /\ results' = Append(results, [from |-> w, result |-> result[w]])
       ELSE /\ ToNextTarget(w)
            /\ wlog' = wlog
            /\ results' = results
    /\ UNCHANGED <<workers, pending, targetGroups, tgClosed, ctxDone, live,
                   tg, result, schemaFromInstance, objDiffs, ddls,
                   targetStmtCount, ei, retErr, received, snap>>

\* Lines 136-152: the end of a target: Worker returns nil when ctx is
\* cancelled, and goes on otherwise.
WkCtx(w) ==
    /\ UNCHANGED wkFrame
    /\ wkPc[w] = "ctx"
    /\ IF ctxDone
       THEN /\ wkPc' = [wkPc EXCEPT ![w] = "done"]
            /\ ti' = ti
            /\ wlog' = [wlog EXCEPT ![w] = Append(@, Event("cancelled", w, 0, TRUE))]
       ELSE /\ ToNextTarget(w)
            /\ wlog' = wlog
    /\ UNCHANGED <<workers, pending, targetGroups, tgClosed, ctxDone, results, live,
                   tg, result, schemaFromInstance, objDiffs, ddls,
                   targetStmtCount, ei, retErr, received, snap>>

\* Worker is called a second time, by the same worker, with the
\* TargetGroup of the first call, once that call has sent its Result: ctx is
\* new, the locals are new, the live schemas are what the first call left.
Rerun(w) ==
    /\ UNCHANGED wkFrame
    /\ wkPc[w] = "done"
    /\ Len(results) = 1 /\ results[1].from = w
    /\ Len(received[w]) = 1
    /\ targetGroups' = <<[id |-> 2, targets |-> received[w][1].targets]>>
    /\ ctxDone' = FALSE
    /\ wkPc' = [wkPc EXCEPT ![w] = "recv"]
    /\ tg' = [tg EXCEPT ![w] = NoGroup]
    /\ ti' = [ti EXCEPT ![w] = 0]
    /\ result' = [result EXCEPT ![w] = ZeroResult]
    /\ schemaFromInstance' = [schemaFromInstance EXCEPT ![w] = NilInstanceSchema]
    /\ objDiffs' = [objDiffs EXCEPT ![w] = <<>>]
    /\ ddls' = [ddls EXCEPT ![w] = <<>>]
    /\ targetStmtCount' = [targetStmtCount EXCEPT ![w] = 0]
    /\ ei' = [ei EXCEPT ![w] = 0]
    /\ snap' = [snap EXCEPT ![w] = ZeroResult]
    /\ UNCHANGED <<workers, pending, tgClosed, results, live, retErr, received, wlog>>

\* The queues of the pool study: TargetGroups over a few plain targets, one
\* target whose directory configuration is in error, and one whose second
\* statement fails.
GroupMenu ==
    { <<PlainTarget("s1", <<"ddl">>)>>,
      <<PlainTarget("s2", <<"ddl", "ddlfail">>), PlainTarget("s3", <<>>)>>,
      <<[PlainTarget("s3", <<"ddl">>) EXCEPT !.gateErr = "mods"]>> }

\* The groups of a queue, numbered in the order they are sent.
Numbered(groups) == [i \in 1..Len(groups) |-> [id |-> i, targets |-> groups[i]]]

\* A pool of two workers and a producer that has sent nothing yet.
WkInitPool ==
    \E groups \in SeqUpTo(GroupMenu, MaxGroups) :
        WkInitWith(WorkerIds, Numbered(groups), <<>>, FALSE)

\* One worker; the queue holds one group, of any target followed by a plain
\* one, and is closed.
WkInitTarget ==
    \E t \in Targets({"s1"}, MaxDiffs) :
        WkInitWith({"w1"}, <<>>, Numbered(<< <<t, PlainTarget("s2", <<"ddl">>)>> >>), TRUE)

(***************************************************************************)
(* getLock                                                                 *)
(***************************************************************************)

\* maxWait, in seconds: a poll that does not obtain the lock takes one.
MaxWait == 2

\* The callers of getLock, all with the same lock name on one instance.
LkCallers == {"c1", "c2"}

\* GET_LOCK(name, 1) on the connection of caller c, lines 382: an error on
\* a connection that is no longer open; 1 when no other connection holds
\* the lock; 0 when the second of waiting has passed.
GET_LOCK(c, conn, owner) ==
    IF conn # "open" THEN [err |-> "conn", result |-> 0]
    ELSE IF owner \in {"none", c} THEN [err |-> "nil", result |-> 1]
    ELSE [err |-> "nil", result |-> 0]

\* RELEASE_LOCK(name) on the connection of caller c, line 362: 1 when that
\* connection holds the lock.
RELEASE_LOCK(c, conn, owner) ==
    IF conn # "open" THEN [err |-> "conn", result |-> 0]
    ELSE IF owner = c THEN [err |-> "nil", result |-> 1]
    ELSE [err |-> "nil", result |-> 0]

\* The server's lock once the connection of caller c has ended.
ConnectionEnded(c, owner) == IF owner = c THEN "none" ELSE owner

\* The test of line 383 taking any answer without an error for the lock.
PollObtained_AnyResult(err, getLockResult) == err = "nil"

\* Line 383: the poll obtained the lock.
PollObtained(err, getLockResult) == err = "nil" /\ getLockResult = 1

\* The entries of lkLog: a query on lockConn with what it returned, and
\* lockConn.Close().
QueryEvent(q, r) == [q |-> q, err |-> r.err, result |-> r.result]

CloseEvent == [q |-> "Close", err |-> "nil", result |-> 0]

LkInit ==
    /\ lkPc = [c \in LkCallers |-> "idle"]
    /\ lockConn = [c \in LkCallers |-> "none"]
    /\ lockOwner = "none"
    /\ elapsed = [c \in LkCallers |-> 0]
    /\ done = [c \in LkCallers |-> FALSE]
    /\ connMaintainer = [c \in LkCallers |-> "none"]
    /\ lkLog = [c \in LkCallers |-> <<>>]

\* Lines 343-346: instance.Connect; an error is returned as it is.
LkConnect(c, ok) ==
    /\ UNCHANGED lkFrame
    /\ lkPc[c] = "idle"
    /\ lkPc' = [lkPc EXCEPT ![c] = IF ok THEN "conn" ELSE "error"]
    /\ UNCHANGED <<lockConn, lockOwner, elapsed, done, connMaintainer, lkLog>>

\* Lines 347-350 and 377-378: db.Conn reserves the connection; an error is
\* returned as it is; otherwise the clock of the polling loop starts.
LkConn(c, ok) ==
    /\ UNCHANGED lkFrame
    /\ lkPc[c] = "conn"
    /\ lkPc' = [lkPc EXCEPT ![c] = IF ok THEN "poll" ELSE "error"]
    /\ lockConn' = [lockConn EXCEPT ![c] = IF ok THEN "open" ELSE @]
    /\ elapsed' = [elapsed EXCEPT ![c] = 0]
    /\ UNCHANGED <<lockOwner, done, connMaintainer, lkLog>>

\* Lines 379-388: one iteration of the polling loop. A poll that obtains
\* the lock starts connMaintainer and returns release; any other takes its
\* second.
LkPoll(c) ==
    /\ UNCHANGED lkFrame
    /\ lkPc[c] = "poll"
    /\ elapsed[c] < MaxWait
    /\ LET r == GET_LOCK(c, lockConn[c], lockOwner)
       IN /\ lkLog' = [lkLog EXCEPT ![c] = Append(@, QueryEvent("GET_LOCK", r))]
          /\ IF PollObtained(r.err, r.result)
             THEN /\ lockOwner' = IF r.result = 1 THEN c ELSE lockOwner
                  /\ connMaintainer' = [connMaintainer EXCEPT ![c] = "running"]
                  /\ lkPc' = [lkPc EXCEPT ![c] = "holding"]
                  /\ elapsed' = elapsed
             ELSE /\ elapsed' = [elapsed EXCEPT ![c] = @ + 1]
                  /\ UNCHANGED <<lockOwner, connMaintainer, lkPc>>
    /\ UNCHANGED <<lockConn, done>>

\* LkTimeout starting connMaintainer all the same.
LkTimeout_KeepAlive(c) ==
    /\ UNCHANGED lkFrame
    /\ lkPc[c] = "poll"
    /\ elapsed[c] >= MaxWait
    /\ lkPc' = [lkPc EXCEPT ![c] = "unable"]
    /\ connMaintainer' = [connMaintainer EXCEPT ![c] = "running"]
    /\ UNCHANGED <<lockConn, lockOwner, elapsed, done, lkLog>>

\* Lines 379 and 390: maxWait has passed; the error is returned and
\* lockConn is left as it is.
LkTimeout(c) ==
    /\ UNCHANGED lkFrame
    /\ lkPc[c] = "poll"
    /\ elapsed[c] >= MaxWait
    /\ lkPc' = [lkPc EXCEPT ![c] = "unable"]
    /\ UNCHANGED <<lockConn, lockOwner, elapsed, done, connMaintainer, lkLog>>

\* Lines 353-355: the caller calls release, which closes done.
LkRelease(c) ==
    /\ UNCHANGED lkFrame
    /\ lkPc[c] = "holding"
    /\ done' = [done EXCEPT ![c] = TRUE]
    /\ lkPc' = [lkPc EXCEPT ![c] = "released"]
    /\ UNCHANGED <<lockConn, lockOwner, elapsed, connMaintainer, lkLog>>

\* LkPing without the deferred lockConn.Close().
LkPing_NoClose(c) ==
    /\ UNCHANGED lkFrame
    /\ connMaintainer[c] = "running"
    /\ IF lockConn[c] = "open"
       THEN UNCHANGED <<connMaintainer, lockConn, lockOwner, lkLog>>
       ELSE /\ connMaintainer' = [connMaintainer EXCEPT ![c] = "exited"]
            /\ lkLog' = [lkLog EXCEPT ![c] =
                   Append(@, [q |-> "SELECT 1", err |-> "conn", result |-> 0])]
            /\ UNCHANGED <<lockConn, lockOwner>>
    /\ UNCHANGED <<lkPc, elapsed, done>>

\* Lines 367-372 and 358: the timer of the select fires and connMaintainer
\* pings lockConn; when the ping fails it returns, which closes lockConn.
LkPing(c) ==
    /\ UNCHANGED lkFrame
    /\ connMaintainer[c] = "running"
    /\ IF lockConn[c] = "open"
       THEN UNCHANGED <<connMaintainer, lockConn, lockOwner, lkLog>>
       ELSE /\ connMaintainer' = [connMaintainer EXCEPT ![c] = "exited"]
            /\ lockConn' = [lockConn EXCEPT ![c] = "closed"]
            /\ lockOwner' = ConnectionEnded(c, lockOwner)
            /\ lkLog' = [lkLog EXCEPT ![c] =
                   @ \o <<[q |-> "SELECT 1", err |-> "conn", result |-> 0], CloseEvent>>]
    /\ UNCHANGED <<lkPc, elapsed, done>>

\* Lines 361-366 and 358: done is closed; connMaintainer asks the server to
\* release the lock, logs a failure, and returns, which closes lockConn.
LkUnlock(c) ==
    /\ UNCHANGED lkFrame
    /\ connMaintainer[c] = "running"
    /\ done[c]
    /\ LET r == RELEASE_LOCK(c, lockConn[c], lockOwner)
       IN /\ lockOwner' = ConnectionEnded(c, IF r.result = 1 THEN "none" ELSE lockOwner)
          /\ lkLog' = [lkLog EXCEPT ![c] = @ \o <<QueryEvent("RELEASE_LOCK", r), CloseEvent>>]
    /\ connMaintainer' = [connMaintainer EXCEPT ![c] = "exited"]
    /\ lockConn' = [lockConn EXCEPT ![c] = "closed"]
    /\ UNCHANGED <<lkPc, elapsed, done>>

\* The reserved connection of caller c is lost (the network, a restart of
\* the server, a KILL): the server frees the locks it held.
LkDrop(c) ==
    /\ UNCHANGED lkFrame
    /\ lockConn[c] = "open"
    /\ lockConn' = [lockConn EXCEPT ![c] = "dropped"]
    /\ lockOwner' = ConnectionEnded(c, lockOwner)
    /\ UNCHANGED <<lkPc, elapsed, done, connMaintainer, lkLog>>

NextLock ==
    \/ \E c \in LkCallers, ok \in BOOLEAN : LkConnect(c, ok)
    \/ \E c \in LkCallers, ok \in BOOLEAN : LkConn(c, ok)
    \/ \E c \in LkCallers : LkPoll(c)
    \/ \E c \in LkCallers : LkTimeout(c)
    \/ \E c \in LkCallers : LkRelease(c)
    \/ \E c \in LkCallers : LkPing(c)
    \/ \E c \in LkCallers : LkUnlock(c)
    \/ \E c \in LkCallers : LkDrop(c)

(***************************************************************************)
(* SumResults                                                              *)
(***************************************************************************)

\* Bound of the study of SumResults: the length of the slice. The Results
\* it is drawn from have counts of 0 and 1, which the sums exceed.
MaxResults == 3

Counts == {0, 1}

ResultVals == [Differences : BOOLEAN, SkipCount : Counts, UnsupportedCount : Counts]

\* Lines 161-163, with Differences taken from r alone.
AddResult_Overwrite(total, r) ==
    [Differences |-> r.Differences,
     SkipCount |-> total.SkipCount + r.SkipCount,
     UnsupportedCount |-> total.UnsupportedCount + r.UnsupportedCount]

\* Lines 161-163: the body of the loop of SumResults.
AddResult(total, r) ==
    [Differences |-> total.Differences \/ r.Differences,
     SkipCount |-> total.SkipCount + r.SkipCount,
     UnsupportedCount |-> total.UnsupportedCount + r.UnsupportedCount]

\* Lines 160-164: the loop over results from position i on.
RECURSIVE SumFrom(_, _, _)
SumFrom(rs, i, total) ==
    IF i > Len(rs) THEN total ELSE SumFrom(rs, i + 1, AddResult(total, rs[i]))

\* Lines 158-166: SumResults.
SumResults(rs) == SumFrom(rs, 1, ZeroResult)

SrInitWith(lists) ==
    /\ srPc = "input"
    /\ srResults \in lists
    /\ srTotal = ZeroResult

SrParked == SrInitWith({<<>>})

\* SumResults is called with the slice.
SrSum ==
    /\ UNCHANGED srFrame
    /\ srPc = "input"
    /\ srTotal' = SumResults(srResults)
    /\ srPc' = "summed"
    /\ UNCHANGED srResults

\* SumResults is called again with two neighbours of the slice exchanged.
SrSwap(i) ==
    /\ UNCHANGED srFrame
    /\ srPc = "summed"
    /\ i \in 1..(Len(srResults) - 1)
    /\ srResults' = [srResults EXCEPT ![i] = srResults[i + 1], ![i + 1] = srResults[i]]
    /\ srTotal' = SumResults(srResults')
    /\ UNCHANGED srPc

\* SumResults is called again with the sub-slice from i to j summed first
\* and its sum put in its place.
SrGroup(i, j) ==
    /\ UNCHANGED srFrame
    /\ srPc = "summed"
    /\ i \in 1..(Len(srResults) + 1) /\ j \in (i - 1)..Len(srResults)
    /\ srResults' = SubSeq(srResults, 1, i - 1)
                    \o <<SumResults(SubSeq(srResults, i, j))>>
                    \o SubSeq(srResults, j + 1, Len(srResults))
    /\ Len(srResults') <= MaxResults
    /\ srTotal' = SumResults(srResults')
    /\ UNCHANGED srPc

NextSum ==
    \/ SrSum
    \/ \E i \in 1..MaxResults : SrSwap(i)
    \/ \E i \in 1..(MaxResults + 1), j \in 0..MaxResults : SrGroup(i, j)

\* One worker and one TargetGroup of one target, for the study of two
\* calls of Worker in a row.
WkInitRerun ==
    \E t \in Targets({"s1"}, MaxDiffs) :
        WkInitWith({"w1"}, <<>>, Numbered(<< <<t>> >>), TRUE)

InitShutdown == SdInit /\ ExParked /\ WkParked /\ LkInit /\ SrParked

InitExec == ExInit /\ SdInit /\ WkParked /\ LkInit /\ SrParked

InitWorker == WkInitPool /\ SdInit /\ ExParked /\ LkInit /\ SrParked

InitTarget == WkInitTarget /\ SdInit /\ ExParked /\ LkInit /\ SrParked

NextShutdown ==
    \/ \E p \in SdThreads, f \in ShutdownFunc : RegisterLock(p, f)
    \/ \E p \in SdThreads : RegisterAppend(p)
    \/ \E p \in SdThreads, args \in ArgVals : ShutdownLock(p, args)
    \/ \E p \in SdThreads : ShutdownInvoke(p)
    \/ \E p \in SdThreads : ShutdownReturn(p)

SpecShutdown == InitShutdown /\ [][NextShutdown]_vars

SpecExec == InitExec /\ [][NextExec]_vars

\* Each CREATE goroutine is scheduled, gets its connection when the pool has
\* one and is answered by the database; the goroutine of ExecLogicalSchema
\* runs its fan-in loop.
SpecExecFair ==
    /\ SpecExec
    /\ \A st \in CreateMenu :
          /\ WF_vars(st \in lsCreates /\ TaskBegin(st))
          /\ WF_vars(st \in lsCreates /\ TaskFinish(st))
          /\ WF_vars(st \in lsCreates /\ ExecCollect(st))
    /\ WF_vars(ExecCloseResults)

InitCap ==
    /\ \E objType \in {"table", "func"} : ExStartCap(objType)
    /\ SdInit /\ WkParked /\ LkInit /\ SrParked

\* The steps of ExecLogicalSchema from its CREATE phase on, for a logical
\* schema without ALTERs.
NextCap ==
    \/ \E st \in lsCreates : TaskBegin(st)
    \/ \E st \in lsCreates : TaskFinish(st)
    \/ \E st \in lsCreates : ExecCollect(st)
    \/ ExecCloseResults
    \/ \E ok \in BOOLEAN : ExecIntrospect(ok)
    \/ \E ok \in BOOLEAN : ExecCleanup(ok)

SpecCap == InitCap /\ [][NextCap]_vars

InitLock == LkInit /\ SdInit /\ ExParked /\ WkParked /\ SrParked

SpecLock == InitLock /\ [][NextLock]_vars

\* connMaintainer is a goroutine of its own: the scheduler runs it, its
\* timer fires, and a closed done is received.
SpecLockFair ==
    /\ SpecLock
    /\ \A c \in LkCallers : WF_vars(LkUnlock(c)) /\ WF_vars(LkPing(c))

InitSum == SrInitWith(SeqUpTo(ResultVals, MaxResults)) /\ SdInit /\ ExParked /\ WkParked /\ LkInit

SpecSum == InitSum /\ [][NextSum]_vars

\* The steps of the workers, and the cancellation of ctx.
NextTarget ==
    \/ \E w \in workers : WkRecv(w)
    \/ \E w \in workers : WkFinish(w)
    \/ \E w \in workers : WkFetch(w)
    \/ \E w \in workers : WkConfigure(w)
    \/ \E w \in workers : WkRender(w)
    \/ \E w \in workers : WkLint(w)
    \/ \E w \in workers : WkExec(w)
    \/ \E w \in workers : WkCtx(w)
    \/ Cancel

\* The same, with the producer.
NextWorker ==
    \/ NextTarget
    \/ SendGroup
    \/ CloseGroups

SpecTarget == InitTarget /\ [][NextTarget]_vars

SpecWorker == InitWorker /\ [][NextWorker]_vars

InitRerun == WkInitRerun /\ SdInit /\ ExParked /\ LkInit /\ SrParked

\* The steps of the worker, and the second call.
NextRerun ==
    \/ NextTarget
    \/ \E w \in workers : Rerun(w)

SpecRerun == InitRerun /\ [][NextRerun]_vars

(***************************************************************************)
(* Properties of SumResults                                                *)
(***************************************************************************)

RECURSIVE SkipSum(_)
SkipSum(rs) == IF rs = <<>> THEN 0 ELSE Head(rs).SkipCount + SkipSum(Tail(rs))

RECURSIVE UnsupportedSum(_)
UnsupportedSum(rs) ==
    IF rs = <<>> THEN 0 ELSE Head(rs).UnsupportedCount + UnsupportedSum(Tail(rs))

\* The total is the OR of the Differences and the sums of the counts of the
\* slice; it is the zero Result for the empty slice.
TotalIsSum ==
    srPc = "summed" =>
        /\ srTotal.Differences = (\E i \in 1..Len(srResults) : srResults[i].Differences)
        /\ srTotal.SkipCount = SkipSum(srResults)
        /\ srTotal.UnsupportedCount = UnsupportedSum(srResults)
        /\ srResults = <<>> => srTotal = ZeroResult

\* C15: SumResults gives the same total for a slice, for the slice with
\* two neighbours exchanged (so for every permutation) and for the slice with
\* any sub-slice replaced by its sum (so for every grouping); the total is
\* the OR of the Differences and the sums of the counts, the zero Result for
\* the empty slice.
C15_SumResultsOrderAndGrouping ==
    [][/\ TotalIsSum'
       /\ srPc = "summed" => srTotal' = srTotal]_vars

\* A slice of three Results one of which has Differences set, summed to a
\* total with counts that no single Result has.
C15_Witness ==
    /\ srPc = "summed" /\ Len(srResults) = 3
    /\ srTotal.Differences /\ ~srResults[3].Differences
    /\ srTotal.SkipCount = 2 /\ srTotal.UnsupportedCount = 3

(***************************************************************************)
(* Properties of getLock                                                   *)
(***************************************************************************)

\* Caller c is between a getLock that returned release and its call of
\* release.
Holding(c) == lkPc[c] = "holding"

\* C4 as stated: no two callers hold the lock at the same time, whatever
\* happens to the holder's connection.
C4_Original ==
    \A c1, c2 \in LkCallers : (Holding(c1) /\ Holding(c2)) => c1 = c2

\* C4, amended: a holder whose reserved connection is not lost holds the
\* lock at the server, and no two such callers hold the lock at the same
\* time; a caller whose connection was lost may still think it holds the
\* lock while another acquires it.
C4_MutualExclusion ==
    /\ \A c \in LkCallers : (Holding(c) /\ lockConn[c] = "open") => lockOwner = c
    /\ \A c1, c2 \in LkCallers :
          (Holding(c1) /\ lockConn[c1] = "open" /\ Holding(c2) /\ lockConn[c2] = "open")
              => c1 = c2
    /\ \A c \in LkCallers : lockOwner = c => lockConn[c] = "open"

\* One caller holds the lock on its live connection; the other polled
\* until maxWait had passed and got the error.
C4_Witness ==
    \E c1, c2 \in LkCallers :
        /\ Holding(c1) /\ lockConn[c1] = "open" /\ lockOwner = c1
        /\ lkPc[c2] = "unable" /\ elapsed[c2] = MaxWait

\* The last entry of the log of caller c.
LastQuery(c) == lkLog[c][Len(lkLog[c])]

\* A poll of caller c got the lock.
Obtained(e) == e.q = "GET_LOCK" /\ e.err = "nil" /\ e.result = 1

\* C17: getLock returns release only in the step of a poll that got the
\* lock on lockConn, and then starts connMaintainer; once maxWait has passed
\* without such a poll it polls no more and returns the error: there is no
\* release function, no connMaintainer, and no poll after the return.
C17_SuccessOnlyAfterObtainingPoll ==
    [][\A c \in LkCallers :
          /\ (lkPc'[c] = "holding" /\ lkPc[c] # "holding") =>
                /\ lkPc[c] = "poll" /\ lockConn[c] = "open"
                /\ lkLog'[c] = Append(lkLog[c], LastQuery(c)')
                /\ Obtained(LastQuery(c)')
                /\ lockOwner' = c
                /\ connMaintainer'[c] = "running"
          /\ (lkPc[c] = "poll" /\ elapsed[c] >= MaxWait
                  /\ (lkPc'[c] # "poll" \/ lkLog'[c] # lkLog[c])) =>
                lkPc'[c] = "unable" /\ lkLog'[c] = lkLog[c]
          /\ lkPc'[c] = "unable" =>
                /\ lkPc[c] \in {"poll", "unable"}
                /\ elapsed'[c] >= MaxWait
                /\ \A i \in 1..Len(lkLog'[c]) :
                      lkLog'[c][i].q = "GET_LOCK" /\ ~Obtained(lkLog'[c][i])
                /\ connMaintainer'[c] = "none" /\ ~done'[c]
          /\ lkPc[c] = "unable" => lkLog'[c] = lkLog[c] /\ lkPc'[c] = "unable"]_vars

\* A caller polled MaxWait times on its live connection without getting the
\* lock, which the other caller holds, and got the error.
C17_Witness ==
    \E c \in LkCallers :
        /\ lkPc[c] = "unable" /\ lockConn[c] = "open"
        /\ Len(lkLog[c]) = MaxWait
        /\ \A i \in 1..Len(lkLog[c]) : lkLog[c][i].err = "nil" /\ lkLog[c][i].result = 0
        /\ connMaintainer[c] = "none"
        /\ \E o \in LkCallers \ {c} : lockOwner = o /\ Obtained(LastQuery(o))

\* C18 as stated: once release was called and connMaintainer is over, the
\* log of lockConn ends with the RELEASE_LOCK query and then Close.
C18_Original ==
    \A c \in LkCallers :
        (lkPc[c] = "released" /\ connMaintainer[c] = "exited") =>
            /\ Len(lkLog[c]) >= 2
            /\ lkLog[c][Len(lkLog[c]) - 1].q = "RELEASE_LOCK"
            /\ LastQuery(c).q = "Close"

\* How connMaintainer ends: with Close as the last entry of the log, right
\* after a RELEASE_LOCK, issued once done is closed, or right after a ping
\* that failed.
MaintainerEnds(c) ==
    /\ \A i \in 1..Len(lkLog[c]) :
          /\ lkLog[c][i].q = "Close" <=> (connMaintainer[c] = "exited" /\ i = Len(lkLog[c]))
          /\ lkLog[c][i].q = "RELEASE_LOCK" => done[c] /\ i = Len(lkLog[c]) - 1
          /\ lkLog[c][i].q = "SELECT 1" => lkLog[c][i].err # "nil" /\ i = Len(lkLog[c]) - 1
    /\ connMaintainer[c] = "exited" =>
          /\ lockConn[c] = "closed" /\ lockOwner # c
          /\ Len(lkLog[c]) >= 2
          /\ lkLog[c][Len(lkLog[c]) - 1].q \in {"RELEASE_LOCK", "SELECT 1"}

\* C18, amended: release only closes done, and never blocks; after it
\* lockConn is closed in the end, in every execution. connMaintainer issues
\* RELEASE_LOCK and then closes lockConn, unless a ping failed first, before
\* or after the call of release: then it closes lockConn without the unlock.
\* A failure of the unlock changes nothing else.
C18_ReleaseClosesConnection ==
    /\ \A c \in LkCallers :
          lkPc[c] = "released" ~> (lockConn[c] = "closed" /\ connMaintainer[c] = "exited")
    /\ [](\A c \in LkCallers : Holding(c) => ENABLED LkRelease(c))
    /\ [][\A c \in LkCallers :
             /\ MaintainerEnds(c)'
             /\ (lkPc[c] = "holding" /\ lkPc'[c] # "holding") =>
                   /\ lkPc'[c] = "released" /\ done'[c]
                   /\ UNCHANGED <<lockConn, lockOwner, connMaintainer, lkLog>>
             /\ lkPc[c] = "released" => lkPc'[c] = "released"]_vars

\* release was called for a lock whose connection had been lost: the unlock
\* failed, and lockConn was closed after it.
C18_Witness ==
    \E c \in LkCallers :
        /\ lkPc[c] = "released" /\ lockConn[c] = "closed"
        /\ lkLog[c][Len(lkLog[c]) - 1].q = "RELEASE_LOCK"
        /\ lkLog[c][Len(lkLog[c]) - 1].err # "nil"
        /\ LastQuery(c).q = "Close"

\* getLock returned "Unable to acquire lock" to caller c, from line 390.
Unable(c) == lkPc[c] = "unable"

\* C27 as stated: when getLock has returned the error of line 390, the
\* connection it had reserved is closed and does not hold the lock at the
\* server.
C27_FailedAcquisitionClosesConnection ==
    \A c \in LkCallers :
        Unable(c) => (lockConn[c] = "closed" /\ lockOwner # c)

(***************************************************************************)
(* Properties of applier.Worker                                            *)
(***************************************************************************)

ResultsFrom(w) == Cardinality({ i \in 1..Len(results) : results[i].from = w })

IsPrefix(a, b) == Len(a) <= Len(b) /\ \A i \in 1..Len(a) : a[i] = b[i]

\* The targets of a sequence of groups, group after group, each in order.
RECURSIVE TargetsOf(_)
TargetsOf(groups) ==
    IF groups = <<>> THEN <<>>
    ELSE [k \in 1..Len(Head(groups).targets) |-> <<Head(groups).id, k>>]
         \o TargetsOf(Tail(groups))

\* The targets worker w has begun, in the order it began them.
StartsOf(w) ==
    LET st == SelectSeq(wlog[w], LAMBDA e : e.ev = "start")
    IN [i \in 1..Len(st) |-> <<st[i].g, st[i].t>>]

ObservedCancel(w) == \E i \in 1..Len(wlog[w]) : wlog[w][i].ev = "cancelled"

\* What holds of every worker, cancelled or not: it sends at most one
\* Result, and only once the queue is closed and drained and every target of
\* every group it received is done; the groups go to one worker each; a
\* worker handles its groups' targets in order.
C5_Common(w) ==
    /\ ResultsFrom(w) <= 1
    /\ IsPrefix(StartsOf(w), TargetsOf(received[w]))
    /\ \A i, j \in 1..Len(received[w]) : received[w][i].id = received[w][j].id => i = j
    /\ \A v \in workers \ {w} : \A i \in 1..Len(received[w]), j \in 1..Len(received[v]) :
          received[w][i].id # received[v][j].id
    /\ ResultsFrom(w) = 1 =>
          /\ wkPc[w] = "done" /\ retErr[w] = "nil"
          /\ pending = <<>> /\ targetGroups = <<>> /\ tgClosed
          /\ StartsOf(w) = TargetsOf(received[w])

\* C5 as stated: every worker that returned without a fatal error has sent
\* one Result, after draining the closed queue.
C5_Original ==
    \A w \in workers :
        /\ C5_Common(w)
        /\ (wkPc[w] = "done" /\ retErr[w] = "nil") => ResultsFrom(w) = 1

\* C5, amended: every worker that returned without a fatal error and
\* without having observed the cancellation of ctx has sent one Result,
\* after draining the closed queue.
C5_DrainThenOneResult ==
    \A w \in workers :
        /\ C5_Common(w)
        /\ (wkPc[w] = "done" /\ retErr[w] = "nil" /\ ~ObservedCancel(w)) => ResultsFrom(w) = 1

\* Both workers drained the queue: one received a group of two targets, the
\* other another group, and each sent its Result.
C5_Witness ==
    /\ workers = WorkerIds
    /\ \A w \in workers : ResultsFrom(w) = 1 /\ Len(received[w]) = 1
    /\ \E w \in workers : Len(StartsOf(w)) = 2

\* Worker w has begun the target it is at.
TargetBegun(w) ==
    \E i \in 1..Len(wlog[w]) :
        wlog[w][i].ev = "start" /\ wlog[w][i].g = tg[w].id /\ wlog[w][i].t = ti[w]

\* The statements printed and executed for the target worker w is at.
EventsOfCur(w) ==
    SelectSeq(wlog[w], LAMBDA e : e.ev \in {"print", "exec"} /\ e.g = tg[w].id /\ e.t = ti[w])

\* C7 as stated: a target whose live schema could not be fetched adds one
\* to SkipCount and nothing else: no statement is built, printed or executed
\* for it, it does not set Differences, and Worker goes on.
C7_FetchFailureSkipsTarget ==
    \A w \in workers :
        (TargetBegun(w) /\ Cur(w).fetchErr) =>
            /\ result[w].SkipCount = snap[w].SkipCount + 1
            /\ result[w].Differences = snap[w].Differences
            /\ ddls[w] = <<>>
            /\ EventsOfCur(w) = <<>>
            /\ retErr[w] = "nil"

HasRenderError(diffs) == \E i \in 1..Len(diffs) : diffs[i].kind = "error"

\* The position of the first diff whose rendering fails with another error
\* than an unsupported diff.
FirstRenderError(diffs) ==
    CHOOSE i \in 1..Len(diffs) :
        diffs[i].kind = "error" /\ \A j \in 1..(i - 1) : diffs[j].kind # "error"

\* Worker w takes the step that renders the diffs of a target, and one of
\* them fails with such an error.
RenderErrorStep(w) ==
    wkPc[w] = "render" /\ wkPc'[w] # "render" /\ HasRenderError(objDiffs[w])

\* After the step, worker w is at the next target of its group, or at the
\* next receive when the group has no other target; it has not returned.
AtNextTarget(w) ==
    /\ retErr'[w] = "nil"
    /\ tg'[w] = tg[w]
    /\ IF ti[w] < Len(tg[w].targets)
       THEN ti'[w] = ti[w] + 1 /\ wkPc'[w] = "fetch"
       ELSE ti'[w] = ti[w] /\ wkPc'[w] = "recv"

\* Nothing of a target with a rendering error is ever printed or executed.
NoDDLOnRenderError(w) ==
    wlog'[w] # wlog[w] /\ wkPc[w] = "exec" => ~HasRenderError(objDiffs[w])

\* C8 as stated: the rendering error adds to SkipCount the number of diffs
\* from the failing one on; nothing of the target is printed or executed and
\* Worker goes to the next target.
C8_Original ==
    [][\A w \in workers :
          /\ RenderErrorStep(w) =>
                /\ result'[w].SkipCount = result[w].SkipCount
                       + (Len(objDiffs[w]) - FirstRenderError(objDiffs[w]) + 1)
                /\ wlog'[w] = wlog[w] /\ live' = live
                /\ AtNextTarget(w)
          /\ NoDDLOnRenderError(w)]_vars

\* C8, amended: the rendering error adds to SkipCount the number of all the
\* target's object diffs, those before the failing one included; nothing of
\* the target is printed or executed and Worker goes to the next target.
C8_RenderErrorContained ==
    [][\A w \in workers :
          /\ RenderErrorStep(w) =>
                /\ result'[w].SkipCount = result[w].SkipCount + Len(objDiffs[w])
                /\ wlog'[w] = wlog[w] /\ live' = live
                /\ AtNextTarget(w)
          /\ NoDDLOnRenderError(w)]_vars

\* The first target was given up at its second diff, after a statement had
\* been built for the first; the worker is about to begin the next target.
C8_Witness ==
    /\ wkPc["w1"] = "fetch" /\ ti["w1"] = 2
    /\ Len(objDiffs["w1"]) >= 2
    /\ objDiffs["w1"][1].kind = "ddl" /\ objDiffs["w1"][2].kind = "error"
    /\ result["w1"].SkipCount = Len(objDiffs["w1"])
    /\ Len(wlog["w1"]) = 1

\* Worker w takes the step of the lint gate and the linter reports errors.
LintRejectStep(w) ==
    wkPc[w] = "lint" /\ wkPc'[w] # "lint" /\ LintRejects(Cur(w), ddls[w])

\* C9 as stated: a lint rejection adds to SkipCount the number of
\* statements built for the target; none is printed or executed and Worker
\* goes to the next target.
C9_LintRejectionSkipsDDLs ==
    [][\A w \in workers :
          LintRejectStep(w) =>
              /\ result'[w].SkipCount = result[w].SkipCount + Len(ddls[w])
              /\ wlog'[w] = wlog[w] /\ live' = live
              /\ AtNextTarget(w)]_vars

\* The iterations worker w has done of the loop over the target's ddls.
ExecIterations(w) == IF ei[w] > 0 THEN ei[w] - 1 ELSE 0

\* The statements of the target worker w is at that were executed with
\* success.
ExecutedOk(w) ==
    Len(SelectSeq(EventsOfCur(w), LAMBDA e : e.ev = "exec" /\ e.ok))

\* On a real run the statements are printed and executed in the order
\* built, each printed right before it is executed, up to the first failure;
\* what was executed with success is in the live schema.
ExecInOrder(w) ==
    (TargetBegun(w) /\ ~Cur(w).dryRun) =>
        LET ev == EventsOfCur(w)
            n == ExecIterations(w)
        IN /\ Len(ev) = 2 * n
           /\ n <= Len(ddls[w])
           /\ \A j \in 1..n :
                 /\ ev[2 * j - 1].ev = "print" /\ ev[2 * j - 1].key = ddls[w][j].key
                 /\ ev[2 * j].ev = "exec" /\ ev[2 * j].key = ddls[w][j].key
                 /\ j < n => ev[2 * j].ok
                 /\ ev[2 * j].ok => ddls[w][j].key \in live[Cur(w).schema]
           /\ (n > 0 /\ ~ev[2 * n].ok) => wkPc[w] # "exec"

\* Worker w takes a step of the loop over ddls in which the execution fails.
ExecFailureStep(w) ==
    /\ wkPc[w] = "exec" /\ ei'[w] = ei[w] + 1
    /\ wlog'[w][Len(wlog'[w])].ev = "exec" /\ ~wlog'[w][Len(wlog'[w])].ok

\* C10: on a real run the statements of a target are printed and executed
\* in order, each printed before it is executed; a failure ends the loop,
\* leaves what was applied, adds to SkipCount the number of the target's
\* statements not executed with success, and takes the worker, without an
\* error, to the end of the target, where it goes on to the next one.
C10_ExecInOrderStopAtFailure ==
    [][\A w \in workers :
          /\ ExecInOrder(w)'
          /\ ExecFailureStep(w) =>
                /\ result'[w].SkipCount = result[w].SkipCount
                       + (Len(ddls[w]) - ExecutedOk(w)')
                /\ live' = live
                /\ wkPc'[w] = "ctx" /\ retErr'[w] = "nil"
                /\ ti'[w] = ti[w] /\ tg'[w] = tg[w]]_vars

\* The second of three statements failed: the first stays applied, the
\* third was neither printed nor executed, two are counted as skipped.
C10_Witness ==
    /\ wkPc["w1"] = "ctx" /\ ti["w1"] = 1
    /\ Len(ddls["w1"]) = 3
    /\ Len(EventsOfCur("w1")) = 4
    /\ EventsOfCur("w1")[2].ok /\ ~EventsOfCur("w1")[4].ok
    /\ ddls["w1"][1].key \in live["s1"]
    /\ ~Cur("w1").fetchErr
    /\ result["w1"].SkipCount = 2

\* The keys of a sequence of diffs, statements or events.
KeysOf(sq) == [i \in 1..Len(sq) |-> sq[i].key]

\* The statements Worker builds from diffs: one for each diff that is
\* neither dropped as a no-op nor unsupported, in the order of the diffs.
Produced(diffs) == SelectSeq(diffs, LAMBDA d : d.kind \in {"ddl", "ddlfail"})

\* Worker is past the loop over the ddls of the target it is at.
PastExec(w) == wkPc[w] \in {"ctx", "recv", "done"} /\ retErr[w] = "nil"

\* For a dry-run target only prints are logged, of the statements built, in
\* their order, each once; all of them once the loop over ddls is over,
\* unless the target was given up before the loop.
DryRunPrints(w) ==
    (TargetBegun(w) /\ Cur(w).dryRun) =>
        LET ev == EventsOfCur(w)
        IN /\ \A j \in 1..Len(ev) : ev[j].ev = "print"
           /\ IsPrefix(KeysOf(ev), KeysOf(ddls[w]))
           /\ wkPc[w] = "exec" => Len(ev) = ei[w] - 1
           /\ (PastExec(w) /\ ~HasRenderError(objDiffs[w])
                   /\ ~LintRejects(Cur(w), ddls[w])) =>
                 /\ KeysOf(ev) = KeysOf(Produced(objDiffs[w]))
                 /\ ddls[w] = Produced(objDiffs[w])

\* C11: for a dry-run target no statement is executed on any path: the
\* live schema is as it was; when the lint gate lets the target through,
\* every statement built is printed once, in diff order, and the loop over
\* ddls adds nothing to SkipCount.
C11_DryRunExecutesNothing ==
    [][\A w \in workers :
          /\ DryRunPrints(w)'
          /\ (wkPc[w] \in {"configure", "render", "lint", "exec", "ctx"} /\ Cur(w).dryRun
                  /\ (wkPc'[w] # wkPc[w] \/ ei'[w] # ei[w])) =>
                live' = live
          /\ (wkPc[w] = "exec" /\ Cur(w).dryRun) => result'[w] = result[w]]_vars

\* MaxDiffs statements that would create as many tables in an empty live
\* schema: all are printed, none is executed, Differences is set and
\* SkipCount is 0.
C11_Witness ==
    /\ wkPc["w1"] = "ctx" /\ ti["w1"] = 1
    /\ Cur("w1").dryRun /\ ~Cur("w1").fetchErr
    /\ Len(ddls["w1"]) = MaxDiffs
    /\ \A j \in 1..MaxDiffs : ddls["w1"][j].kind = "ddl"
    /\ Len(EventsOfCur("w1")) = MaxDiffs
    /\ \A j \in 1..MaxDiffs : EventsOfCur("w1")[j].ev = "print"
    /\ result["w1"] = [Differences |-> TRUE, SkipCount |-> 0, UnsupportedCount |-> 0]
    /\ live["s1"] = {}

\* VerifyDiff is called for the target worker w is at.
VerifyRuns(w) ==
    Cur(w).verify /\ Len(objDiffs[w]) > 0 /\ ~(Cur(w).dryRun /\ Cur(w).brief)

\* Worker w has left lines 52-68 for the target it is at.
PastConfigure(w) == TargetBegun(w) /\ wkPc[w] # "configure"

\* C12: VerifyDiff runs only with verify set, a diff that is not empty and
\* brief mode off; when it fails, or StatementModifiersForDir or
\* linter.OptionsForDir fails, Worker returns the error at once: nothing of
\* the target is built, printed or executed, no other target or group is
\* begun and no Result is sent.
C12_FatalErrorAbortsWorker ==
    \A w \in workers :
        /\ retErr[w] # "nil" =>
              /\ wkPc[w] = "done" /\ TargetBegun(w)
              /\ ddls[w] = <<>> /\ EventsOfCur(w) = <<>>
              /\ result[w] = FetchResult(snap[w], Cur(w).fetchErr)
              /\ StartsOf(w)[Len(StartsOf(w))] = <<tg[w].id, ti[w]>>
              /\ received[w][Len(received[w])].id = tg[w].id
              /\ ResultsFrom(w) = 0
        /\ retErr[w] = "VerifyDiff failed" => VerifyRuns(w)
        /\ PastConfigure(w) =>
              /\ Cur(w).gateErr \in {"mods", "lintopts"} => retErr[w] = "ConfigError"
              /\ (Cur(w).gateErr = "verify" /\ VerifyRuns(w)) => retErr[w] = "VerifyDiff failed"
              /\ (Cur(w).gateErr = "verify" /\ ~VerifyRuns(w)) => retErr[w] = "nil"

\* VerifyDiff failed for the first of two targets: the worker returned the
\* error, the second target was not begun and no Result was sent.
C12_Witness ==
    /\ wkPc["w1"] = "done" /\ retErr["w1"] = "VerifyDiff failed"
    /\ ti["w1"] = 1 /\ Len(tg["w1"].targets) = 2
    /\ Len(StartsOf("w1")) = 1
    /\ results = <<>>

\* Worker w takes the step in which the target it is at ends: after the
\* loop over ddls (at the check of ctx), by a lint rejection or by a render
\* error.
EndsTarget(w) ==
    /\ wkPc[w] \in {"render", "lint", "ctx"}
    /\ wkPc'[w] \in {"fetch", "recv", "done"}

\* C13 as stated: a target that ends, in whatever way, once ctx is
\* cancelled is the worker's last: Worker returns nil and begins no other.
C13_CancelCheckedAfterEachTarget ==
    [][\A w \in workers :
          (ctxDone /\ EndsTarget(w)) => (wkPc'[w] = "done" /\ retErr'[w] = "nil")]_vars

\* C14 as stated: a worker that observed the cancellation has begun every
\* target of every group it received.
C14_Original ==
    \A w \in workers : ObservedCancel(w) => StartsOf(w) = TargetsOf(received[w])

\* Worker w is at the select of lines 146-151 with ctx cancelled, and takes
\* its step.
ObservesCancel(w) == wkPc[w] = "ctx" /\ ctxDone /\ wkPc'[w] # "ctx"

\* C14, amended: a worker that finds ctx cancelled at the end of a target
\* returns nil at once, without a Result: the targets left in its group stay
\* unprocessed, like the groups not yet received. A worker that observed the
\* cancellation began nothing after it.
C14_CancelLeavesRestOfGroup ==
    [][\A w \in workers :
          /\ ObservesCancel(w) =>
                /\ wkPc'[w] = "done" /\ retErr'[w] = "nil"
                /\ ti'[w] = ti[w] /\ tg'[w] = tg[w]
                /\ results' = results /\ live' = live
          /\ ObservedCancel(w)' =>
                /\ wkPc'[w] = "done"
                /\ wlog'[w][Len(wlog'[w])].ev = "cancelled"
                /\ ResultsFrom(w)' = 0
                /\ IsPrefix(StartsOf(w)', TargetsOf(received'[w]))]_vars

\* The worker returned at the end of the first of two targets: the second
\* was never begun.
C14_Witness ==
    /\ ObservedCancel("w1") /\ wkPc["w1"] = "done"
    /\ ti["w1"] = 1 /\ Len(tg["w1"].targets) = 2
    /\ StartsOf("w1") = << <<tg["w1"].id, 1>> >>
    /\ EventsOfCur("w1") # <<>>

\* The target of the two passes.
PassTarget == received["w1"][1].targets[1]

\* The first pass was a real run in which every object diff of the target
\* became a statement that was executed with success, and it is over.
FirstPassClean ==
    /\ Len(results) >= 1
    /\ ~PassTarget.dryRun
    /\ PassTarget.diffs # <<>>
    /\ \A i \in 1..Len(PassTarget.diffs) :
          \E k \in 1..Len(wlog["w1"]) :
              LET e == wlog["w1"][k]
              IN e.g = 1 /\ e.ev = "exec" /\ e.key = i /\ e.ok

\* C16 as stated: after such a first pass, a second pass over the same
\* target prints and executes nothing and sends the zero Result.
C16_SecondPassFindsNothing ==
    FirstPassClean =>
        /\ \A k \in 1..Len(wlog["w1"]) :
              wlog["w1"][k].g = 2 => wlog["w1"][k].ev \notin {"print", "exec"}
        /\ Len(results) = 2 => results[2].result = ZeroResult

\* The diffs of a sequence that Worker looks at: all of them, or those up
\* to the first rendering error.
Rendered(diffs) ==
    IF HasRenderError(diffs) THEN SubSeq(diffs, 1, FirstRenderError(diffs)) ELSE diffs

CountKind(diffs, kind) == Cardinality({ i \in 1..Len(diffs) : diffs[i].kind = kind })

\* Worker w has rendered the diffs of target k of its group and has not
\* begun another target since: it is at the lint gate of target k, or a
\* rendering error took it from target k to the next one.
JustRendered(w, k) ==
    \/ wkPc[w] = "lint" /\ ti[w] = k
    \/ /\ wkPc[w] = "fetch" /\ ti[w] = k + 1
       /\ HasRenderError(objDiffs[w])

\* C21: the loop over the object diffs of a target treats each diff by the
\* outcome of NewDDLStatement: a no-op changes nothing; a statement sets
\* Differences and is appended to ddls, in diff order; an unsupported diff
\* adds one to UnsupportedCount and nothing to SkipCount or to ddls, and the
\* loop goes on with the next diff. SkipCount changes by a rendering error
\* alone.
C21_RenderOutcomes ==
    \A w \in workers : \A k \in 1..Len(tg[w].targets) :
        JustRendered(w, k) =>
            LET before == FetchResult(snap[w], tg[w].targets[k].fetchErr)
                seen == Rendered(objDiffs[w])
            IN /\ result[w].UnsupportedCount
                     = before.UnsupportedCount + CountKind(seen, "unsupported")
               /\ result[w].Differences
                     = (before.Differences \/ \E i \in 1..Len(seen) : seen[i].kind # "noop")
               /\ ddls[w] = Produced(seen)
               /\ ~HasRenderError(objDiffs[w]) => result[w].SkipCount = before.SkipCount
               /\ (\A i \in 1..Len(seen) : seen[i].kind = "noop") =>
                     result[w] = before /\ targetStmtCount[w] = 0

\* An unsupported diff, then a statement, then a no-op: the loop went on
\* after the unsupported diff and queued the one statement; one unsupported
\* diff and nothing skipped are counted.
C21_Witness ==
    /\ wkPc["w1"] = "lint" /\ ti["w1"] = 1
    /\ Len(objDiffs["w1"]) = 3
    /\ objDiffs["w1"][1].kind = "unsupported"
    /\ objDiffs["w1"][2].kind = "ddl"
    /\ objDiffs["w1"][3].kind = "noop"
    /\ ddls["w1"] = <<objDiffs["w1"][2]>>
    /\ result["w1"] = [Differences |-> TRUE, SkipCount |-> 0, UnsupportedCount |-> 1]

\* Worker w returned nil.
ReturnedNil(w) == wkPc[w] = "done" /\ retErr[w] = "nil"

\* Worker w returned nil at the end of the range over targetGroups: the
\* queue was closed and empty, and w had not observed a cancellation.
Drained(w) == ReturnedNil(w) /\ ~ObservedCancel(w)

\* C26: a worker that observes the cancellation returns nil and sends no
\* Result, whatever it has accumulated. The result queue holds one Result
\* for each worker that left the range over targetGroups at its end, the
\* Result that worker accumulated, and nothing else: as many Results as
\* workers that drained the queue, never more than workers that returned
\* nil.
C26_CancelledWorkerSendsNothing ==
    /\ \A w \in workers :
          ObservedCancel(w) => ReturnedNil(w) /\ ResultsFrom(w) = 0
    /\ Len(results) = Cardinality({ w \in workers : Drained(w) })
    /\ Len(results) <= Cardinality({ w \in workers : ReturnedNil(w) })
    /\ \A i \in 1..Len(results) :
          /\ Drained(results[i].from)
          /\ results[i].result = result[results[i].from]
          /\ \A j \in 1..Len(results) : results[j].from = results[i].from => i = j

\* Both workers returned nil: one observed the cancellation after a target
\* for which it had counted a difference and a skipped statement, and sent
\* nothing; the other drained the queue and sent its Result. One Result for
\* two workers that returned nil.
C26_Witness ==
    /\ workers = WorkerIds
    /\ \A w \in workers : ReturnedNil(w)
    /\ Len(results) = 1
    /\ \E w \in workers :
          /\ ObservedCancel(w)
          /\ result[w].Differences /\ result[w].SkipCount = 1
          /\ ResultsFrom(w) = 0

(***************************************************************************)
(* Properties of the shutdown registry                                     *)
(***************************************************************************)

\* Registration r has not returned true from any invocation so far.
NotCleaned(r) == \A i \in 1..Len(invLog) : invLog[i].reg = r => ~invLog[i].ret

\* The invocations Shutdown call number c has made, in order.
InvocationsOf(c) == SelectSeq(invLog, LAMBDA e : e.call = c)

\* C6: whenever no call is in progress, the registry holds exactly the
\* registrations that have not yet returned true, in registration order;
\* each Shutdown call invokes the functions registered when it started, once
\* each, in order, with the call's arguments; and a registration that
\* returned true is not invoked again.
C6_RegistryExact ==
    /\ shutdownFuncMutex = "free" =>
          shutdownFuncs = SelectSeq([i \in 1..Len(registered) |-> i], NotCleaned)
    /\ \A c \in 1..Len(sdCalls) :
          LET inv == InvocationsOf(c)
              before == sdCalls[c].before
          IN /\ Len(inv) <= Len(before)
             /\ sdCalls[c].done => Len(inv) = Len(before)
             /\ \A k \in 1..Len(inv) :
                   /\ inv[k].reg = before[k]
                   /\ inv[k].args = sdCalls[c].args
                   /\ inv[k].ret = CallShutdownFunc(registered[before[k]], sdCalls[c].args)
             /\ \A j, k \in 1..Len(before) : before[j] = before[k] => j = k
    /\ \A i, j \in 1..Len(invLog) :
          (i < j /\ invLog[i].reg = invLog[j].reg) => ~invLog[i].ret

\* Two Shutdown calls are complete; one registration was retained by the
\* first and invoked again by the second, another was removed by the first,
\* and a function registered in between is in the registry.
C6_Witness ==
    /\ shutdownFuncMutex = "free"
    /\ Len(sdCalls) = 2 /\ sdCalls[2].done
    /\ \E i, j, k \in 1..Len(invLog) :
          /\ invLog[i].call = 1 /\ ~invLog[i].ret
          /\ invLog[j].call = 2 /\ invLog[j].reg = invLog[i].reg
          /\ invLog[k].call = 1 /\ invLog[k].ret
    /\ \E r \in 1..Len(registered) :
          /\ \A i \in 1..Len(invLog) : invLog[i].call = 1 => invLog[i].reg # r
          /\ r \in {shutdownFuncs[n] : n \in 1..Len(shutdownFuncs)}

\* The goroutines inside RegisterShutdownFunc or Shutdown, past Lock().
InCall == { p \in SdThreads : sdPc[p] # "idle" }

\* The registrations in the registry.
InRegistry == { shutdownFuncs[n] : n \in 1..Len(shutdownFuncs) }

\* Registration r was invoked by Shutdown call number c.
InvokedBy(r, c) == \E i \in 1..Len(invLog) : invLog[i].reg = r /\ invLog[i].call = c

\* C25: at most one goroutine is inside RegisterShutdownFunc or Shutdown at
\* a time, and it holds the mutex. When none is, no registration is lost:
\* each function registered so far is in the registry or was invoked by a
\* Shutdown call (and returned true from it), and a function registered
\* while a Shutdown call was under way, or after it, is in the registry
\* unless a later call invoked it. No Shutdown call invokes a registration
\* twice.
C25_RegisterShutdownExclusive ==
    /\ Cardinality(InCall) <= 1
    /\ \A p \in SdThreads : p \in InCall <=> shutdownFuncMutex = p
    /\ InCall = {} =>
          \A r \in 1..Len(registered) :
              /\ r \in InRegistry \/ \E c \in 1..Len(sdCalls) : InvokedBy(r, c)
              /\ r \in InRegistry <=> NotCleaned(r)
              /\ (\A c \in 1..Len(sdCalls) : ~InvokedBy(r, c)) => r \in InRegistry
    /\ \A i, j \in 1..Len(invLog) :
          (invLog[i].call = invLog[j].call /\ invLog[i].reg = invLog[j].reg) => i = j

\* A Shutdown call that found one function removed it, and a function
\* registered after that call had begun is in the registry, never invoked.
C25_Witness ==
    /\ InCall = {}
    /\ Len(sdCalls) = 1 /\ sdCalls[1].done
    /\ sdCalls[1].before = <<1>>
    /\ Len(registered) = 2
    /\ shutdownFuncs = <<2>>
    /\ InvokedBy(1, 1) /\ ~InvokedBy(2, 1)

(***************************************************************************)
(* Properties of ExecLogicalSchema                                         *)
(***************************************************************************)

Failures == wsSchema.Failures

\* The number of StatementErrors in Failures that reference statement r.
FailuresFor(r) == Cardinality({ i \in 1..Len(Failures) : Failures[i].stmt = r })

AllStepsOk == \A step \in DOMAIN exEvents : exEvents[step] = "ok"

\* C1: when construction, both pools, introspection and cleanup succeed, the
\* call returns a nil fatal error, every statement was executed once, and
\* Failures holds one StatementError for each statement whose execution
\* errored and none for the others.
C1_FailuresExact ==
    (exPc = "returned" /\ AllStepsOk) =>
        /\ fatalErr = "nil"
        /\ ~wsSchema.nil
        /\ \A r \in StmtRefs :
              /\ Len(execLog[r]) = 1
              /\ FailuresFor(r) = IF execLog[r][1] # "nil" THEN 1 ELSE 0
        /\ \A i \in 1..Len(Failures) :
              /\ Failures[i].stmt \in StmtRefs
              /\ Failures[i].err = IF execLog[Failures[i].stmt][1] = "syntax"
                                   THEN "SQL syntax error"
                                   ELSE "Error executing DDL in workspace"

\* One malformed CREATE among three statements: one StatementError, for it.
C1_Witness ==
    /\ exPc = "returned" /\ AllStepsOk
    /\ Cardinality(lsCreates) = 2 /\ Len(lsAlters) = 1
    /\ Len(Failures) = 1
    /\ Failures[1] = [stmt |-> <<"create", "t2">>, err |-> "SQL syntax error"]
    /\ execLog[<<"alter", "1">>] = <<"nil">>

\* C2: when construction succeeded, Cleanup is called once, never more, on
\* every way out; no workspace operation begins after it and no CREATE
\* goroutine is still at work when it is called.
C2_CleanupOnceAndLast ==
    /\ cleanupCalls <= 1
    /\ (exPc = "returned" /\ exEvents["New"] = "ok") => cleanupCalls = 1
    /\ lateOps = 0
    /\ cleanupCalls > 0 => \A st \in lsCreates : task[st] \in {"none", "done"}

\* The call returned after a failed pool acquisition, with Cleanup called.
C2_Witness ==
    /\ exPc = "returned"
    /\ exEvents["New"] = "ok" /\ exEvents["pool1"] = "err"
    /\ cleanupCalls = 1

\* The first fatal error of the call, in the order of the steps.
EarliestFatal ==
    IF exEvents["New"] = "err"
    THEN (IF optsType = "Unsupported" THEN "Unsupported workspace type" ELSE "New failed")
    ELSE IF exEvents["pool1"] = "err" \/ exEvents["pool2"] = "err"
    THEN "Cannot connect to workspace"
    ELSE IF exEvents["introspect"] = "err" THEN "IntrospectSchema failed"
    ELSE IF exEvents["cleanup"] = "err" THEN "Cleanup failed"
    ELSE "nil"

\* C3: the fatal error returned is the earliest one that occurred; the
\* error of Cleanup is returned only when there was none before it.
C3_EarliestFatalError == exPc = "returned" => fatalErr = EarliestFatal

\* Introspection failed, then Cleanup failed too.
C3_Witness ==
    /\ exPc = "returned"
    /\ exEvents["introspect"] = "err" /\ exEvents["cleanup"] = "err"
    /\ fatalErr = "IntrospectSchema failed"

\* No statement was sent to the workspace.
NothingExecuted ==
    /\ \A r \in StmtRefs : execLog[r] = <<>>
    /\ \A st \in lsCreates : task[st] = "none"
    /\ wsObjects = {}

\* C19: when New fails, for an unsupported type as for any other reason,
\* ExecLogicalSchema returns its error and a nil schema, having executed
\* nothing and called no Cleanup; when one of the two ConnectionPool calls
\* fails, the error returned is not nil and no CREATE, no ALTER and no
\* introspection was run.
C19_EarlyFailuresRunNothing ==
    /\ exEvents["New"] = "err" =>
          /\ exPc = "returned"
          /\ fatalErr \in {"New failed", "Unsupported workspace type"}
          /\ wsSchema = NilWsSchema
          /\ NothingExecuted
          /\ cleanupCalls = 0 /\ wsState = "none"
          /\ \A step \in {"pool1", "pool2", "introspect", "cleanup"} : exEvents[step] = "none"
    /\ (optsType = "Unsupported" /\ exPc # "New") =>
          exEvents["New"] = "err" /\ fatalErr = "Unsupported workspace type"
    /\ (exEvents["pool1"] = "err" \/ exEvents["pool2"] = "err") =>
          /\ exPc \in {"cleanup", "returned"}
          /\ fatalErr = "Cannot connect to workspace"
          /\ NothingExecuted
          /\ exEvents["introspect"] = "none"
          /\ wsSchema = NilWsSchema

\* ExecLogicalSchema returned after the second ConnectionPool failed, for a
\* logical schema with a CREATE and an ALTER, and Cleanup failed as well.
C19_Witness ==
    /\ exPc = "returned" /\ exEvents["pool2"] = "err" /\ exEvents["cleanup"] = "err"
    /\ lsCreates # {} /\ lsAlters # <<>>
    /\ fatalErr = "Cannot connect to workspace"

\* What the CREATE statements of the logical schema make of an empty
\* workspace schema, and which of them fail: both depend on the set of
\* statements only, each statement counting for itself.
CreatedObjects == { st.provides : st \in { c \in lsCreates : DbExec(c, {}) = "nil" } }

FailedCreates == { execStatement(CreateRef(st), st, {}) :
                       st \in { c \in lsCreates : DbExec(c, {}) # "nil" } }

\* The workspace schema after the ALTER statements from position i on.
RECURSIVE AfterAlters(_, _, _)
AfterAlters(objects, alters, i) ==
    IF i > Len(alters) THEN objects
    ELSE AfterAlters(DbApply(alters[i], objects), alters, i + 1)

\* The members of Failures, whatever their order.
FailureSet == { wsSchema.Failures[i] : i \in 1..Len(wsSchema.Failures) }

\* Failures holds each of its members once.
NoFailureTwice ==
    \A i, j \in 1..Len(wsSchema.Failures) :
        wsSchema.Failures[i] = wsSchema.Failures[j] => i = j

\* C20: whatever the order in which the goroutines execute the CREATE
\* statements and the fan-in loop receives their results, the CREATE phase
\* ends with the same workspace schema and the same set of StatementErrors,
\* and so does ExecLogicalSchema with the same introspected schema.
C20_CreateOrderIndependent ==
    /\ (exPc = "alters" /\ alterIdx = 1) =>
          /\ wsObjects = CreatedObjects
          /\ FailureSet = FailedCreates
          /\ NoFailureTwice
    /\ (exPc = "returned" /\ exEvents["introspect"] = "ok") =>
          /\ wsSchema.Schema.objects = AfterAlters(CreatedObjects, lsAlters, 1)
          /\ FailedCreates \subseteq FailureSet
          /\ NoFailureTwice

\* Two CREATE statements failed, and the fan-in loop received the failure
\* of the procedure before that of the table.
C20_Witness ==
    /\ exPc = "alters" /\ alterIdx = 1
    /\ Len(wsSchema.Failures) = 2
    /\ wsSchema.Failures[1].stmt = <<"create", "p1">>
    /\ wsSchema.Failures[2].stmt = <<"create", "t2">>

\* The workspace schema after the first k ALTER statements, run one after
\* the other on the schema objects.
RECURSIVE AltersUpTo(_, _, _)
AltersUpTo(objects, alters, k) ==
    IF k = 0 THEN objects
    ELSE DbApply(alters[k], AltersUpTo(objects, alters, k - 1))

\* The ALTER statements that have returned.
AltersReturned == IF alterIdx = 0 THEN 0 ELSE alterIdx - 1

\* The ALTERs that are executed are the first AltersReturned of the list,
\* once each, on the normal pool, each on the schema its predecessors left;
\* introspection comes after the last of them, failed or not.
AltersInOrder ==
    /\ AltersReturned <= Len(lsAlters)
    /\ \A i \in 1..Len(lsAlters) :
          IF i <= AltersReturned
          THEN /\ execPool[AlterRef(i)] = "db"
               /\ execLog[AlterRef(i)]
                     = <<DbExec(lsAlters[i], AltersUpTo(CreatedObjects, lsAlters, i - 1))>>
               /\ FailuresFor(AlterRef(i)) = IF execLog[AlterRef(i)][1] = "nil" THEN 0 ELSE 1
          ELSE /\ execPool[AlterRef(i)] = "none"
               /\ execLog[AlterRef(i)] = <<>>
               /\ FailuresFor(AlterRef(i)) = 0
    /\ exEvents["introspect"] # "none" => AltersReturned = Len(lsAlters)

\* The ALTERs sent to the database in the step.
AltersSent ==
    { i \in 1..Len(lsAlters) : execLog'[AlterRef(i)] # execLog[AlterRef(i)] }

\* C22: the ALTER statements are executed one by one in the order of the
\* list, on the normal pool: a step sends one ALTER at most, the first that
\* has not been executed yet, and it has returned when the step is over;
\* each ALTER finds the schema as its predecessors left it; a failed ALTER
\* is recorded and the next one is executed all the same.
C22_AltersOneByOneInOrder ==
    [][/\ AltersInOrder'
       /\ Cardinality(AltersSent) <= 1
       /\ \A i \in AltersSent :
             /\ i = AltersReturned + 1
             /\ AltersReturned' = i]_vars

\* The index on t1.c before the column: the first ALTER failed, the second
\* was executed after it and succeeded, and the call returned.
C22_Witness ==
    /\ exPc = "returned" /\ exEvents["introspect"] = "ok"
    /\ Len(lsAlters) = 2
    /\ lsAlters[1].name = "addidx" /\ lsAlters[2].name = "addcol"
    /\ execLog[<<"alter", "1">>] = <<"ddl">>
    /\ execLog[<<"alter", "2">>] = <<"nil">>
    /\ FailuresFor(<<"alter", "1">>) = 1
    /\ "t1.c" \in wsSchema.Schema.objects /\ "t1.i" \notin wsSchema.Schema.objects

\* The CREATE statements whose result the fan-in loop has received.
Collected == { st \in lsCreates : task[st] = "done" }

\* The fan-in loop has received one result for each CREATE in Collected and
\* none for the others: a received failure is in Failures once, a result not
\* received yet is not in it; a statement is executed once before its result
\* is sent.
OneResultPerCreate ==
    /\ collected = Cardinality(Collected)
    /\ \A st \in lsCreates :
          /\ task[st] \in {"sending", "done"} => Len(execLog[CreateRef(st)]) = 1
          /\ task[st] \in {"none", "started", "running"} => execLog[CreateRef(st)] = <<>>
          /\ FailuresFor(CreateRef(st))
                = IF st \in Collected /\ taskResult[st] # NilStatementError THEN 1 ELSE 0

\* ExecLogicalSchema is past the fan-in loop.
PastFanIn ==
    \/ exPc = "alters"
    \/ AltersReturned > 0
    \/ exEvents["introspect"] # "none"

\* C23: the fan-in loop receives one result for each CREATE statement, and
\* ExecLogicalSchema goes on to the ALTERs and to the introspection only
\* when all are received: no CREATE is then waiting, executing or blocked
\* sending. Once the goroutines are started the fan-in loop comes to its
\* end.
C23_PhaseBarrier ==
    /\ [](OneResultPerCreate /\ (PastFanIn => Collected = lsCreates))
    /\ (exPc = "collect") ~> (exPc = "alters" /\ Collected = lsCreates)

\* The barrier at work: one result is received, the goroutine of the other
\* CREATE is blocked sending its failure, and an ALTER is waiting.
C23_Witness ==
    /\ exPc = "collect" /\ collected = 1
    /\ Cardinality(lsCreates) = 2 /\ lsAlters # <<>>
    /\ \E st \in lsCreates : task[st] = "sending" /\ taskResult[st] # NilStatementError
    /\ execLog[<<"alter", "1">>] = <<>>

\* The CREATE statements waiting for a connection of their pool.
Waiting == { st \in lsCreates : task[st] = "started" }

\* The CREATE statements that have not been answered by the database yet.
Unanswered == { st \in lsCreates : task[st] \in {"started", "running"} }

\* Neither pool has more than CreateConcurrency statements executing.
CapHolds == \A pool \in {"db", "dbRemember"} : InUse(pool) <= CreateConcurrency

\* A waiting statement is neither dropped nor failed: nothing was sent to
\* the database for it and no result stands for it. While a statement waits,
\* the database can answer one that is executing or the pool can hand out a
\* connection. ExecLogicalSchema leaves the fan-in loop only when every
\* CREATE was executed, once.
WaitNotDrop ==
    /\ \A st \in Waiting :
          /\ execLog[CreateRef(st)] = <<>>
          /\ execPool[CreateRef(st)] = "none"
          /\ taskResult[st] = NilStatementError
          /\ FailuresFor(CreateRef(st)) = 0
    /\ Waiting # {} => ENABLED (\E st \in lsCreates : TaskBegin(st) \/ TaskFinish(st))
    /\ exPc # "collect" =>
          \A st \in lsCreates :
              /\ execLog[CreateRef(st)] = <<DbExec(st, {})>>
              /\ execPool[CreateRef(st)] = PoolFor(st)

\* C24: in the CREATE phase each pool executes CreateConcurrency (10)
\* statements at most at a time, however many CREATE statements there are.
\* A statement that finds its pool at the limit waits: it is neither dropped
\* nor failed, it leaves the wait only by being executed, on its pool, and a
\* step can always be taken that answers a statement or starts a waiting
\* one, of which there are finitely many: every CREATE is executed.
C24_CreateConcurrencyCap ==
    /\ [](CapHolds /\ WaitNotDrop)
    /\ [][/\ Unanswered' \subseteq Unanswered
          /\ \A st \in Waiting : task'[st] \in {"started", "running"}
          /\ \A st \in Waiting \ Waiting' :
                InUse(PoolFor(st)) < CreateConcurrency]_vars

\* Ten statements were executing on the pool and the eleventh waited; one
\* was answered, and the eleventh is now executing with nine others.
C24_Witness ==
    /\ Cardinality(lsCreates) = CreateConcurrency + 1
    /\ \E pool \in {"db", "dbRemember"} : InUse(pool) = CreateConcurrency
    /\ Waiting = {}
    /\ \E st \in lsCreates : task[st] \in {"sending", "done"}

====
